---- MODULE Spec2Model ----
(***************************************************************************)
(* A model of vqueue's bounded deque (src/src/deque.rs).  Every atomic     *)
(* access of the source (a load, a compare_exchange_weak, a store) is one  *)
(* step of the calling thread; the plain accesses to a cell's storage are  *)
(* steps of their own, so that the windows in which a cell is owned in a   *)
(* transient state are visible to the other threads.                       *)
(***************************************************************************)
EXTENDS Integers, Sequences, FiniteSets, Bags, TLC

\* ------------------------------------------------------------------ bounds
NThreads == 2       \* threads of the free-running specification
MaxCalls == 2       \* calls per thread there
MaxOtherCalls == 4  \* calls of the busy thread beside one push
MaxFill == 3        \* calls that fill the deque before the two racing calls
MaxHandles == 257   \* live handles to one cell of SpecMany
MaxSeqCalls == 5    \* calls of the single-threaded specification
MaxVal == 2         \* values pushed are 1..MaxVal
MaxSpurious == 1    \* spurious compare_exchange_weak failures per run
Cap == 3            \* CAPACITY of the deque of Spec, SpecSeq and SpecFullMix
CapMix == 4         \* CAPACITY of the deque of SpecMix
NProducers == 2     \* producer threads of the stress tests
NConsumers == 1     \* consumer threads of the stress tests
Pad == 1            \* values each producer of SpecFullMix pushes
N == 3              \* cells of the SlotArray of SpecRefs
MaxSlotCalls == 3   \* calls per thread of SpecRefs
ARRAY_LEN == 2      \* processes of the queue array, and routes per process
QUEUE_LEN == 2      \* messages a mailbox holds
MaxApiCalls == 10   \* api calls of SpecApi
MaxMsg == 1         \* msg_type values below the wildcard
MaxNtf == 2         \* ntf_id values
MaxPid == 1         \* pid values that set_pid stores

Threads == 1..NThreads
Values == 1..MaxVal
Producers == 1..NProducers
Consumers == (NProducers + 1)..(NProducers + NConsumers)
Workers == Producers \cup Consumers
\* values each producer of SpecMix pushes: fewer than CapMix - 1 in total
MixPad == (CapMix - 2) \div NProducers

\* --------------------------------------------------------- program constants
SLOT_EMPTY == 0
SLOT_WRITING == 1
SLOT_READY == 2
SLOT_READING == 3

\* slot_array.rs: the states of a SlotArray cell, and the width of its rc
SA_EMPTY == 0
SA_READY == 1
SA_PENDING == 2
RC_MOD == 256

VARIABLES
    CAPACITY,   \* the const generic CAPACITY of this deque
    buffer,     \* buffer[i] = [data |-> .., state |-> ..], i in 0..CAPACITY-1
    head,       \* AtomicUsize: index of the first element
    tail,       \* AtomicUsize: one past the last element
    thread,     \* per thread: the running call, its locals, its last result, its place in a test
    flag,       \* the tests' AtomicI32: producers still running
    calls,      \* per thread: calls made so far (bounds the run)
    spurious,   \* spurious compare_exchange_weak failures so far (bounded)
    pushed,     \* history: bag of the values whose push returned Ok / whose guard was dropped
    popped,     \* history: bag of the values returned by pops
    sawEmpty,   \* history: per running pop, whether no cell was READY at some instant of the call
    sawFull,    \* history: per running push, whether the deque held CAPACITY - 1 elements at some instant of the call
    ref,        \* SpecSeq: the reference double-ended queue, front first
    expect,     \* SpecSeq: the reference's result of the current call
    snap,       \* the call and the shared state as they were when the call started
    slots,      \* SlotArray: slots[i] = [state |-> .., rc |-> .., value |-> ..], i in 0..N-1
    refs,       \* per cell: the SlotRefs to it that are live
    ids,        \* per cell: the ids produced by into_id and not given back to from_id
    QUEUE_ARRAY_ADDR  \* lib.rs: the LazyInit anchor of the queue array, None until set

vars == <<CAPACITY, buffer, head, tail, thread, flag, calls, spurious, pushed, popped,
          sawEmpty, sawFull, ref, expect, snap, QUEUE_ARRAY_ADDR, slots, refs, ids>>

\* what no step inside a deque operation touches
env == <<CAPACITY, flag, calls, ref, expect, snap, QUEUE_ARRAY_ADDR, slots, refs, ids>>

PushOps == {"push_front", "push_back", "push_slot_front", "push_slot_back"}
PopOps == {"pop_front", "pop_back"}
DequeOps == PushOps \cup PopOps

\* ------------------------------------------------------------ return values
NoRet == <<"-", 0>>
Ok == <<"Ok", 0>>
Err(v) == <<"Err", v>>
Some(v) == <<"Some", v>>
None == <<"None", 0>>
Usize(n) == <<"usize", n>>
Bool(b) == <<"bool", IF b THEN 1 ELSE 0>>

\* --------------------------------------------------------------- new state
EMPTY_CELL == [data |-> 0, state |-> SLOT_EMPTY]

IdleThread == [pc |-> "idle", op |-> "-", item |-> 0, head |-> 0, tail |-> 0, slot |-> 0,
               ret |-> NoRet, at |-> "free", todo |-> <<>>]

new(c) ==
    /\ CAPACITY = c
    /\ buffer = [i \in 0..(c - 1) |-> EMPTY_CELL]
    /\ head = 0
    /\ tail = 0

\* ---------------------------------------------------------- thread helpers
Me(t) == thread[t]

Running(t) == thread[t].pc # "idle"

\* `continue`: back to the top of the loop, the locals of the iteration are dead
Continue(me) == [me EXCEPT !.pc = "load1", !.head = 0, !.tail = 0, !.slot = 0]

\* `return r`
Return(me, r) == [me EXCEPT !.pc = "idle", !.item = 0, !.head = 0, !.tail = 0, !.slot = 0, !.ret = r]

SetThread(t, r) == thread' = [thread EXCEPT ![t] = r]

SetState(i, s) == buffer' = [buffer EXCEPT ![i].state = s]

\* compare_exchange_weak may fail although the value is the expected one
MaySpuriouslyFail == spurious < MaxSpurious

\* ------------------------------------------------------------ index arithmetic
PrevNoWrap(i) == IF i = 0 THEN 0 ELSE i - 1

\* new_head of push_front, last_pos of pop_back
Prev(i) == IF i = 0 THEN CAPACITY - 1 ELSE i - 1

\* a successor that runs past the last cell
SuccNoWrap(i) == i + 1

\* new_tail of push_back, new_head of pop_front
Succ(i) == (i + 1) % CAPACITY

\* a full check that keeps two cells free
IsFullWithSpare(new_index, other) == new_index = other \/ Prev(new_index) = other

IsFullNever(new_index, other) == FALSE

\* "Check if queue is full"
IsFull(new_index, other) == new_index = other

\* "Check if queue is empty"
IsEmptyCheck(h, tl) == h = tl

\* a claim that takes the cell whatever its state
PushClaimableAny(s) == TRUE

\* a claim that also takes a cell another writer holds
PushClaimableBusy(s) == s \in {SLOT_EMPTY, SLOT_WRITING}

\* ------------------------------------------------------------- cell claims
\* compare_exchange_weak(SLOT_EMPTY, SLOT_WRITING): the states a producer claims from
PushClaimable(s) == s = SLOT_EMPTY

PopClaimableAnyFull(s) == s # SLOT_EMPTY

PopClaimableWriting(s) == s \in {SLOT_READY, SLOT_WRITING}

\* compare_exchange_weak(SLOT_READY, SLOT_READING): the states a consumer claims from
PopClaimable(s) == s = SLOT_READY

\* ------------------------------------------------------------ history helpers
NoReady(b) == \A i \in DOMAIN b : b[i].state # SLOT_READY

\* the deque holds CAPACITY - 1 elements or more: by its indices, or by its
\* cells that are not EMPTY
AtCapacity(b, h, tl) ==
    \/ (tl - h + CAPACITY) % CAPACITY >= CAPACITY - 1
    \/ Cardinality({i \in DOMAIN b : b[i].state # SLOT_EMPTY}) >= CAPACITY - 1

\* A running pop of a free-running thread remembers whether it saw an instant
\* with no READY cell, a running push whether it saw the deque at capacity.
Track ==
    /\ sawEmpty' = [u \in DOMAIN thread |->
                    IF Running(u) /\ thread[u].op \in PopOps /\ thread[u].at = "free"
                    THEN sawEmpty[u] \/ NoReady(buffer')
                    ELSE sawEmpty[u]]
    /\ sawFull' = [u \in DOMAIN thread |->
                    IF Running(u) /\ thread[u].op \in PushOps /\ thread[u].at = "free"
                    THEN sawFull[u] \/ AtCapacity(buffer', head', tail')
                    ELSE sawFull[u]]

\* ------------------------------------------------------------------ pushes
\* The body shared by push_front, push_back, push_slot_front and
\* push_slot_back: front selects the end, guarded the SlotGuard variants.
PushStep(t, front, guarded) ==
    LET me == Me(t)
        first == IF front THEN me.head ELSE me.tail
        new_index == IF front THEN Prev(me.head) ELSE Succ(me.tail)
    IN
    \/ /\ me.pc = "load1"
       /\ SetThread(t, IF front THEN [me EXCEPT !.pc = "load2", !.head = head]
                                ELSE [me EXCEPT !.pc = "load2", !.tail = tail])
       /\ UNCHANGED <<buffer, head, tail, spurious, pushed>>
    \/ /\ me.pc = "load2"
       /\ SetThread(t, IF front THEN [me EXCEPT !.pc = "load3", !.tail = tail]
                                ELSE [me EXCEPT !.pc = "load3", !.head = head])
       /\ UNCHANGED <<buffer, head, tail, spurious, pushed>>
    \/ /\ me.pc = "load3"
       /\ SetThread(t,
            IF (IF front THEN head ELSE tail) # first THEN Continue(me)
            ELSE IF IsFull(new_index, IF front THEN me.tail ELSE me.head)
                 THEN Return(me, IF guarded THEN Err(0) ELSE Err(me.item))
                 ELSE [me EXCEPT !.pc = "cas_slot",
                                 !.slot = IF front THEN new_index ELSE me.tail])
       /\ UNCHANGED <<buffer, head, tail, spurious, pushed>>
    \/ /\ me.pc = "cas_slot"
       /\ \/ /\ PushClaimable(buffer[me.slot].state)
             /\ SetState(me.slot, SLOT_WRITING)
             /\ SetThread(t, [me EXCEPT !.pc = "cas_index"])
             /\ UNCHANGED spurious
          \/ /\ ~PushClaimable(buffer[me.slot].state)
             /\ SetThread(t, Continue(me))
             /\ UNCHANGED <<buffer, spurious>>
          \/ /\ PushClaimable(buffer[me.slot].state)
             /\ MaySpuriouslyFail
             /\ spurious' = spurious + 1
             /\ SetThread(t, Continue(me))
             /\ UNCHANGED buffer
       /\ UNCHANGED <<head, tail, pushed>>
    \/ /\ me.pc = "cas_index"
       /\ \/ /\ (IF front THEN head ELSE tail) = first
             /\ IF front THEN head' = new_index /\ UNCHANGED tail
                         ELSE tail' = new_index /\ UNCHANGED head
             /\ SetThread(t, [me EXCEPT !.pc = "write"])
             /\ UNCHANGED spurious
          \/ /\ (IF front THEN head ELSE tail) # first
             /\ SetThread(t, [me EXCEPT !.pc = "rollback"])
             /\ UNCHANGED <<head, tail, spurious>>
          \/ /\ (IF front THEN head ELSE tail) = first
             /\ MaySpuriouslyFail
             /\ spurious' = spurious + 1
             /\ SetThread(t, [me EXCEPT !.pc = "rollback"])
             /\ UNCHANGED <<head, tail>>
       /\ UNCHANGED <<buffer, pushed>>
    \/ /\ me.pc = "rollback"
       /\ SetState(me.slot, SLOT_EMPTY)
       /\ SetThread(t, Continue(me))
       /\ UNCHANGED <<head, tail, spurious, pushed>>
    \/ /\ ~guarded
       /\ me.pc = "write"
       /\ buffer' = [buffer EXCEPT ![me.slot].data = me.item]
       /\ SetThread(t, [me EXCEPT !.pc = "publish"])
       /\ UNCHANGED <<head, tail, spurious, pushed>>
    \/ /\ ~guarded
       /\ me.pc = "publish"
       /\ SetState(me.slot, SLOT_READY)
       /\ SetThread(t, Return(me, Ok))
       /\ pushed' = pushed (+) SetToBag({me.item})
       /\ UNCHANGED <<head, tail, spurious>>

push_front(t) ==
    /\ thread[t].op = "push_front"
    /\ PushStep(t, TRUE, FALSE)
    /\ UNCHANGED <<env, popped>>
    /\ Track

push_back(t) ==
    /\ thread[t].op = "push_back"
    /\ PushStep(t, FALSE, FALSE)
    /\ UNCHANGED <<env, popped>>
    /\ Track

push_slot_front(t) ==
    /\ thread[t].op = "push_slot_front"
    /\ PushStep(t, TRUE, TRUE)
    /\ UNCHANGED <<env, popped>>
    /\ Track

push_slot_back(t) ==
    /\ thread[t].op = "push_slot_back"
    /\ PushStep(t, FALSE, TRUE)
    /\ UNCHANGED <<env, popped>>
    /\ Track

\* The caller writes through the guard it was handed (DerefMut).
SlotGuard_deref_mut(t) ==
    LET me == Me(t) IN
    /\ me.op \in {"push_slot_front", "push_slot_back"}
    /\ me.pc = "write"
    /\ buffer' = [buffer EXCEPT ![me.slot].data = me.item]
    /\ SetThread(t, [me EXCEPT !.pc = "publish"])
    /\ UNCHANGED <<env, head, tail, spurious, pushed, popped>>
    /\ Track

\* Drop for SlotGuard: "Mark the slot as ready after writing"
SlotGuard_drop(t) ==
    LET me == Me(t) IN
    /\ me.op \in {"push_slot_front", "push_slot_back"}
    /\ me.pc = "publish"
    /\ SetState(me.slot, SLOT_READY)
    /\ SetThread(t, Return(me, Ok))
    /\ pushed' = pushed (+) SetToBag({me.item})
    /\ UNCHANGED <<env, head, tail, spurious, popped>>
    /\ Track

\* -------------------------------------------------------------------- pops
pop_check_wrong_end(me, front) ==
    IF IsEmptyCheck(me.head, me.tail)
    THEN Return(me, None)
    ELSE [me EXCEPT !.pc = "cas_slot", !.slot = me.head]

pop_check_unchecked_read(me, front) ==
    IF IsEmptyCheck(me.head, me.tail)
    THEN Return(me, Some(buffer[me.head].data))
    ELSE [me EXCEPT !.pc = "cas_slot", !.slot = IF front THEN me.head ELSE Prev(me.tail)]

\* After a consistent double read: "Check if queue is empty", else the cell to claim
pop_check(me, front) ==
    IF IsEmptyCheck(me.head, me.tail)
    THEN Return(me, None)
    ELSE [me EXCEPT !.pc = "cas_slot", !.slot = IF front THEN me.head ELSE Prev(me.tail)]

PopStep(t, front) ==
    LET me == Me(t)
        first == IF front THEN me.head ELSE me.tail
        new_index == IF front THEN Succ(me.head) ELSE Prev(me.tail)
    IN
    \/ /\ me.pc = "load1"
       /\ SetThread(t, IF front THEN [me EXCEPT !.pc = "load2", !.head = head]
                                ELSE [me EXCEPT !.pc = "load2", !.tail = tail])
       /\ UNCHANGED <<buffer, head, tail, spurious, popped>>
    \/ /\ me.pc = "load2"
       /\ SetThread(t, IF front THEN [me EXCEPT !.pc = "load3", !.tail = tail]
                                ELSE [me EXCEPT !.pc = "load3", !.head = head])
       /\ UNCHANGED <<buffer, head, tail, spurious, popped>>
    \/ /\ me.pc = "load3"
       /\ SetThread(t,
            IF (IF front THEN head ELSE tail) # first THEN Continue(me)
                                                      ELSE pop_check(me, front))
       /\ UNCHANGED <<buffer, head, tail, spurious, popped>>
    \/ /\ me.pc = "cas_slot"
       /\ \/ /\ PopClaimable(buffer[me.slot].state)
             /\ SetState(me.slot, SLOT_READING)
             /\ SetThread(t, [me EXCEPT !.pc = "cas_index"])
             /\ UNCHANGED spurious
          \/ /\ ~PopClaimable(buffer[me.slot].state)
             /\ buffer[me.slot].state = SLOT_EMPTY
             /\ SetThread(t, Return(me, None))
             /\ UNCHANGED <<buffer, spurious>>
          \/ /\ ~PopClaimable(buffer[me.slot].state)
             /\ buffer[me.slot].state # SLOT_EMPTY
             /\ SetThread(t, Continue(me))
             /\ UNCHANGED <<buffer, spurious>>
          \/ /\ PopClaimable(buffer[me.slot].state)
             /\ MaySpuriouslyFail
             /\ spurious' = spurious + 1
             /\ SetThread(t, Continue(me))
             /\ UNCHANGED buffer
       /\ UNCHANGED <<head, tail, popped>>
    \/ /\ me.pc = "cas_index"
       /\ \/ /\ (IF front THEN head ELSE tail) = first
             /\ IF front THEN head' = new_index /\ UNCHANGED tail
                         ELSE tail' = new_index /\ UNCHANGED head
             /\ SetThread(t, [me EXCEPT !.pc = "read"])
             /\ UNCHANGED spurious
          \/ /\ (IF front THEN head ELSE tail) # first
             /\ SetThread(t, [me EXCEPT !.pc = "rollback"])
             /\ UNCHANGED <<head, tail, spurious>>
          \/ /\ (IF front THEN head ELSE tail) = first
             /\ MaySpuriouslyFail
             /\ spurious' = spurious + 1
             /\ SetThread(t, [me EXCEPT !.pc = "rollback"])
             /\ UNCHANGED <<head, tail>>
       /\ UNCHANGED <<buffer, popped>>
    \/ /\ me.pc = "rollback"
       /\ SetState(me.slot, SLOT_READY)
       /\ SetThread(t, Continue(me))
       /\ UNCHANGED <<head, tail, spurious, popped>>
    \/ /\ me.pc = "read"
       /\ SetThread(t, [me EXCEPT !.pc = "release", !.item = buffer[me.slot].data])
       /\ UNCHANGED <<buffer, head, tail, spurious, popped>>
    \/ /\ me.pc = "release"
       /\ SetState(me.slot, SLOT_EMPTY)
       /\ SetThread(t, Return(me, Some(me.item)))
       /\ popped' = popped (+) SetToBag({me.item})
       /\ UNCHANGED <<head, tail, spurious>>

pop_front(t) ==
    /\ thread[t].op = "pop_front"
    /\ PopStep(t, TRUE)
    /\ UNCHANGED <<env, pushed>>
    /\ Track

pop_back(t) ==
    /\ thread[t].op = "pop_back"
    /\ PopStep(t, FALSE)
    /\ UNCHANGED <<env, pushed>>
    /\ Track

\* --------------------------------------------------------------- observers
len_result(h, tl) == Usize(IF tl >= h THEN tl - h ELSE CAPACITY - h + tl)

is_empty_always(h, tl) == Bool(TRUE)

is_empty_result(h, tl) == Bool(h = tl)

\* The loop shared by len and is_empty: head, tail, head again.
ObserveStep(t, length) ==
    LET me == Me(t) IN
    /\ \/ /\ me.pc = "load1"
          /\ SetThread(t, [me EXCEPT !.pc = "load2", !.head = head])
       \/ /\ me.pc = "load2"
          /\ SetThread(t, [me EXCEPT !.pc = "load3", !.tail = tail])
       \/ /\ me.pc = "load3"
          /\ SetThread(t, IF head # me.head THEN Continue(me)
                          ELSE IF length THEN Return(me, len_result(me.head, me.tail))
                          ELSE Return(me, is_empty_result(me.head, me.tail)))
    /\ UNCHANGED <<buffer, head, tail, spurious, pushed, popped>>

len(t) ==
    /\ thread[t].op = "len"
    /\ ObserveStep(t, TRUE)
    /\ UNCHANGED env
    /\ Track

is_empty(t) ==
    /\ thread[t].op = "is_empty"
    /\ ObserveStep(t, FALSE)
    /\ UNCHANGED env
    /\ Track

\* ------------------------------------------------------------------ callers
\* The thread record of a call of o with argument v
Enter(me, o, v) ==
    [me EXCEPT !.pc = "load1", !.op = o, !.item = v, !.head = 0, !.tail = 0, !.slot = 0,
               !.ret = NoRet]

\* A thread that is not inside a call makes its next call.
Call(t) ==
    /\ ~Running(t)
    /\ calls[t] < MaxCalls
    /\ \E o \in DequeOps :
       \E v \in (IF o \in PushOps THEN Values ELSE {0}) :
          /\ SetThread(t, Enter(Me(t), o, v))
          /\ sawEmpty' = [sawEmpty EXCEPT ![t] = (o \in PopOps) /\ NoReady(buffer)]
          /\ sawFull' = [sawFull EXCEPT ![t] = (o \in PushOps) /\ AtCapacity(buffer, head, tail)]
    /\ calls' = [calls EXCEPT ![t] = @ + 1]
    /\ UNCHANGED <<CAPACITY, buffer, head, tail, flag, spurious, pushed, popped, ref, expect, snap, QUEUE_ARRAY_ADDR, slots, refs, ids>>

Start(c, T) ==
    /\ new(c)
    /\ thread = [t \in T |-> IdleThread]
    /\ flag = 0
    /\ calls = [t \in T |-> 0]
    /\ spurious = 0
    /\ pushed = EmptyBag
    /\ popped = EmptyBag
    /\ sawEmpty = [t \in T |-> FALSE]
    /\ sawFull = [t \in T |-> FALSE]
    /\ ref = <<>>
    /\ expect = NoRet
    /\ snap = <<>>
    /\ QUEUE_ARRAY_ADDR = None
    /\ slots = <<>>
    /\ refs = <<>>
    /\ ids = <<>>

Init == Start(Cap, Threads)

\* A step of thread t inside its push or pop.
Work(t) ==
    \/ push_front(t)
    \/ push_back(t)
    \/ push_slot_front(t)
    \/ push_slot_back(t)
    \/ SlotGuard_deref_mut(t)
    \/ SlotGuard_drop(t)
    \/ pop_front(t)
    \/ pop_back(t)

Next == \E t \in Threads : Call(t) \/ Work(t)

Spec == Init /\ [][Next]_vars

\* Thread 1 is scheduled for as long as it can step; every other thread may be
\* suspended for ever at any point.
SpecSolo == Init /\ [][Next]_vars /\ WF_vars(Work(1))

\* ------------------------------------------------- one thread and a reference
SeqOps == {"push_front", "push_back", "pop_front", "pop_back", "len", "is_empty"}

\* The reference: a double-ended queue bounded to CAPACITY - 1 elements.
RefResult(q, o, v) ==
    CASE o \in {"push_front", "push_back"} -> IF Len(q) = CAPACITY - 1 THEN Err(v) ELSE Ok
      [] o = "pop_front" -> IF q = <<>> THEN None ELSE Some(q[1])
      [] o = "pop_back" -> IF q = <<>> THEN None ELSE Some(q[Len(q)])
      [] o = "len" -> Usize(Len(q))
      [] o = "is_empty" -> Bool(Len(q) = 0)

RefAfter(q, o, v) ==
    CASE o = "push_front" -> IF Len(q) = CAPACITY - 1 THEN q ELSE <<v>> \o q
      [] o = "push_back" -> IF Len(q) = CAPACITY - 1 THEN q ELSE Append(q, v)
      [] o = "pop_front" -> IF q = <<>> THEN q ELSE Tail(q)
      [] o = "pop_back" -> IF q = <<>> THEN q ELSE SubSeq(q, 1, Len(q) - 1)
      [] OTHER -> q

SeqCall ==
    /\ ~Running(1)
    /\ calls[1] < MaxSeqCalls
    /\ \E o \in SeqOps :
       \E v \in (IF o \in PushOps THEN Values ELSE {0}) :
          /\ SetThread(1, Enter(Me(1), o, v))
          /\ expect' = RefResult(ref, o, v)
          /\ ref' = RefAfter(ref, o, v)
          /\ snap' = [op |-> o, item |-> v, head |-> head, tail |-> tail, buffer |-> buffer]
    /\ calls' = [calls EXCEPT ![1] = @ + 1]
    /\ UNCHANGED <<CAPACITY, buffer, head, tail, flag, spurious, pushed, popped, sawEmpty, sawFull,
                   QUEUE_ARRAY_ADDR, slots, refs, ids>>

InitSeq == Start(Cap, {1})

NextSeq ==
    \/ SeqCall
    \/ push_front(1)
    \/ push_back(1)
    \/ pop_front(1)
    \/ pop_back(1)
    \/ len(1)
    \/ is_empty(1)

SpecSeq == InitSeq /\ [][NextSeq]_vars

\* ------------------------------------------------------------ the stress tests
\* The main thread is the first consumer; it fills the deque before it spawns
\* the other threads.
Main == NProducers + 1

Spawned == thread[Main].at # "fill"

Goto(t, l) == thread' = [thread EXCEPT ![t].at = l]

\* "Fill the deque until it is full": push_front, the result only printed
fill(t) ==
    LET me == Me(t) IN
    /\ me.at = "fill"
    /\ ~Running(t)
    /\ IF me.todo = <<>>
       THEN Goto(t, "flag")
       ELSE thread' = [thread EXCEPT ![t] = [Enter(@, "push_front", Head(me.todo))
                                                EXCEPT !.todo = Tail(me.todo)]]
    /\ UNCHANGED <<CAPACITY, buffer, head, tail, flag, calls, spurious, pushed, popped,
                   sawEmpty, sawFull, ref, expect, snap, QUEUE_ARRAY_ADDR, slots, refs, ids>>

\* A producer thread: for each of its values one push through an operation of
\* ops, repeated while it fails when retry; then flag.fetch_sub(1).
producer(t, ops, retry) ==
    LET me == Me(t) IN
    /\ Spawned
    /\ ~Running(t)
    /\ \/ /\ me.at = "push"
          /\ me.todo # <<>>
          /\ \E o \in ops :
                thread' = [thread EXCEPT ![t] = [Enter(@, o, Head(me.todo)) EXCEPT !.at = "pushing"]]
          /\ UNCHANGED flag
       \/ /\ me.at = "pushing"
          /\ retry /\ me.ret[1] = "Err"
          /\ thread' = [thread EXCEPT ![t] = Enter(@, me.op, Head(me.todo))]
          /\ UNCHANGED flag
       \/ /\ me.at = "pushing"
          /\ ~(retry /\ me.ret[1] = "Err")
          /\ thread' = [thread EXCEPT ![t].at = "push", ![t].todo = Tail(me.todo)]
          /\ UNCHANGED flag
       \/ /\ me.at = "push"
          /\ me.todo = <<>>
          /\ flag' = flag - 1
          /\ Goto(t, "done")
    /\ UNCHANGED <<CAPACITY, buffer, head, tail, calls, spurious, pushed, popped,
                   sawEmpty, sawFull, ref, expect, snap, QUEUE_ARRAY_ADDR, slots, refs, ids>>

\* A consumer thread:
\* while flag.load() != 0 || !is_empty() { pop through an operation of ops }
consume(t, ops) ==
    LET me == Me(t) IN
    /\ Spawned
    /\ ~Running(t)
    /\ \/ /\ me.at = "flag"
          /\ flag # 0
          /\ \E o \in ops : thread' = [thread EXCEPT ![t] = Enter(@, o, 0)]
       \/ /\ me.at = "flag"
          /\ flag = 0
          /\ thread' = [thread EXCEPT ![t] = [Enter(@, "is_empty", 0) EXCEPT !.at = "is_empty"]]
       \/ /\ me.at = "is_empty"
          /\ me.ret = Bool(FALSE)
          /\ \E o \in ops :
                thread' = [thread EXCEPT ![t] = [Enter(@, o, 0) EXCEPT !.at = "flag"]]
       \/ /\ me.at = "is_empty"
          /\ me.ret = Bool(TRUE)
          /\ Goto(t, "done")
    /\ UNCHANGED <<CAPACITY, buffer, head, tail, flag, calls, spurious, pushed, popped,
                   sawEmpty, sawFull, ref, expect, snap, QUEUE_ARRAY_ADDR, slots, refs, ids>>

consumer(t) == consume(t, PopOps)

\* the threads of a test over a deque of capacity c: the main thread fills the
\* deque with `filled`, each producer pushes `pad` copies of a value of its own
StartTest(c, filled, pad) ==
    /\ new(c)
    /\ thread = [t \in Workers |->
                    IF t \in Producers
                    THEN [IdleThread EXCEPT !.at = "push", !.todo = [i \in 1..pad |-> t]]
                    ELSE IF t = Main
                    THEN [IdleThread EXCEPT !.at = "fill", !.todo = filled]
                    ELSE [IdleThread EXCEPT !.at = "flag"]]
    /\ flag = NProducers
    /\ calls = [t \in Workers |-> 0]
    /\ spurious = 0
    /\ pushed = EmptyBag
    /\ popped = EmptyBag
    /\ sawEmpty = [t \in Workers |-> FALSE]
    /\ sawFull = [t \in Workers |-> FALSE]
    /\ ref = <<>>
    /\ expect = NoRet
    /\ snap = <<>>
    /\ QUEUE_ARRAY_ADDR = None
    /\ slots = <<>>
    /\ refs = <<>>
    /\ ids = <<>>

\* test_mpsc, test_mpmc, test_mpmc_rev, test_mpmc_mix: the deque never fills
InitMix == StartTest(CapMix, <<>>, MixPad)

StepMix(t) ==
    \/ fill(t)
    \/ producer(t, PushOps, FALSE)
    \/ consumer(t)
    \/ Work(t)
    \/ is_empty(t)

NextMix == \E t \in Workers : StepMix(t)

SpecMix == InitMix /\ [][NextMix]_vars /\ \A t \in Workers : WF_vars(StepMix(t))

\* test_mpmc_full_mix: the deque starts with CAPACITY - 1 zeros, pushes are retried
InitFullMix == StartTest(Cap, [i \in 1..(Cap - 1) |-> 0], Pad)

StepFullMix(t) ==
    \/ fill(t)
    \/ producer(t, {"push_front", "push_back"}, TRUE)
    \/ consumer(t)
    \/ push_front(t)
    \/ push_back(t)
    \/ pop_front(t)
    \/ pop_back(t)
    \/ is_empty(t)

NextFullMix == \E t \in Workers : StepFullMix(t)

SpecFullMix == InitFullMix /\ [][NextFullMix]_vars /\ \A t \in Workers : WF_vars(StepFullMix(t))

\* ================================================================= SlotArray
\* storage that holds no live value
DEAD == 0

NEW_SLOT == [state |-> SA_EMPTY, rc |-> 0, value |-> DEAD]

SlotArray_new(n) == [i \in 0..(n - 1) |-> NEW_SLOT]

\* a thread of the SlotArray harness: seen is the array as it was at its call
IdleTask == [pc |-> "idle", op |-> "-", index |-> 0, value |-> DEAD, ret |-> NoRet, seen |-> <<>>]

\* results of the SlotArray operations
SlotRefTo(i) == <<"SlotRef", i>>
FirstCell == <<"SlotRef", 0>>
Full == <<"Err", 0>>
Unit == <<"()", 0>>
Abort == <<"abort", 0>>

\* a panic: the thread never runs again
Panic(me) == [me EXCEPT !.pc = "aborted", !.ret = Abort]

Finish(me, r) == [me EXCEPT !.pc = "idle", !.ret = r]

\* an rc that is never counted
u8_keep(a, b) == a

\* AtomicU8 arithmetic wraps
u8_add(a, b) == (a + b + RC_MOD) % RC_MOD

\* --------------------------------------------------------------- push_ / push
scan_from_last(n) == n - 1

\* "for i in 0..N": the first cell tried
scan_first(n) == 0

\* compare_exchange(SLOT_EMPTY, SLOT_PENDING) succeeds
Claimable(cell) == cell.state = SA_EMPTY

SlotArray_push(t) ==
    LET me == Me(t)
        i == me.index
    IN
    /\ me.op = "push"
    /\ \/ /\ me.pc = "cas"
          /\ Claimable(slots[i])
          /\ slots' = [slots EXCEPT ![i].state = SA_PENDING]
          /\ SetThread(t, [me EXCEPT !.pc = "write"])
          /\ UNCHANGED refs
       \/ /\ me.pc = "cas"
          /\ ~Claimable(slots[i])
          /\ SetThread(t, IF i + 1 < Cardinality(DOMAIN slots)
                          THEN [me EXCEPT !.index = i + 1]
                          ELSE Finish(me, Full))
          /\ UNCHANGED <<slots, refs>>
       \/ /\ me.pc = "write"
          /\ slots' = [slots EXCEPT ![i].value = me.value]
          /\ SetThread(t, [me EXCEPT !.pc = "ready"])
          /\ UNCHANGED refs
       \/ /\ me.pc = "ready"
          /\ slots' = [slots EXCEPT ![i].state = SA_READY]
          /\ SetThread(t, IF slots[i].state = SA_PENDING THEN [me EXCEPT !.pc = "rc"] ELSE Panic(me))
          /\ UNCHANGED refs
       \/ /\ me.pc = "rc"
          /\ slots' = [slots EXCEPT ![i].rc = u8_add(@, 1)]
          /\ IF slots[i].rc = 0
             THEN SetThread(t, Finish(me, SlotRefTo(i))) /\ refs' = [refs EXCEPT ![i] = @ + 1]
             ELSE SetThread(t, Panic(me)) /\ UNCHANGED refs
    /\ UNCHANGED <<CAPACITY, buffer, head, tail, flag, calls, spurious, pushed, popped, sawEmpty, sawFull,
                   ref, expect, snap, QUEUE_ARRAY_ADDR, ids>>

\* ------------------------------------------------------------ SlotArray::get
\* SlotRef::get and Deref: the Option of SlotArray::get, unwrapped
SlotRef_get(t) ==
    LET me == Me(t)
        i == me.index
    IN
    /\ me.op = "get"
    /\ \/ /\ me.pc = "load1"
          /\ SetThread(t, IF slots[i].state = SA_READY THEN [me EXCEPT !.pc = "read"] ELSE Panic(me))
       \/ /\ me.pc = "read"
          /\ SetThread(t, [me EXCEPT !.pc = "load2", !.value = slots[i].value])
       \/ /\ me.pc = "load2"
          /\ SetThread(t, IF slots[i].state = SA_READY THEN Finish(me, Some(me.value)) ELSE Panic(me))
    /\ UNCHANGED <<CAPACITY, buffer, head, tail, flag, calls, spurious, pushed, popped, sawEmpty, sawFull,
                   ref, expect, snap, QUEUE_ARRAY_ADDR, slots, refs, ids>>

\* ------------------------------------------------------------ Clone and Drop
SlotRef_clone_uncounted(t) ==
    LET me == Me(t)
        i == me.index
    IN
    /\ me.op = "clone"
    /\ me.pc = "fetch_add"
    /\ SetThread(t, Finish(me, SlotRefTo(i)))
    /\ refs' = [refs EXCEPT ![i] = @ + 1]
    /\ UNCHANGED <<CAPACITY, buffer, head, tail, flag, calls, spurious, pushed, popped, sawEmpty, sawFull,
                   ref, expect, snap, QUEUE_ARRAY_ADDR, slots, ids>>

SlotRef_clone(t) ==
    LET me == Me(t)
        i == me.index
    IN
    /\ me.op = "clone"
    /\ me.pc = "fetch_add"
    /\ slots' = [slots EXCEPT ![i].rc = u8_add(@, 1)]
    /\ IF slots[i].rc >= 1
       THEN SetThread(t, Finish(me, SlotRefTo(i))) /\ refs' = [refs EXCEPT ![i] = @ + 1]
       ELSE SetThread(t, Panic(me)) /\ UNCHANGED refs
    /\ UNCHANGED <<CAPACITY, buffer, head, tail, flag, calls, spurious, pushed, popped, sawEmpty, sawFull,
                   ref, expect, snap, QUEUE_ARRAY_ADDR, ids>>

IsLastAlways(prev_rc) == TRUE

IsLastNever(prev_rc) == FALSE

\* "if prev_rc == 1": this drop released the last handle
IsLast(prev_rc) == prev_rc = 1

\* Drop for SlotRef, with SlotArray::delete inlined at its end
SlotRef_drop(t) ==
    LET me == Me(t)
        i == me.index
    IN
    /\ me.op = "drop"
    /\ \/ /\ me.pc = "fetch_sub"
          /\ slots' = [slots EXCEPT ![i].rc = u8_add(@, -1)]
          /\ SetThread(t, IF IsLast(slots[i].rc) THEN [me EXCEPT !.pc = "pending"] ELSE Finish(me, Unit))
       \/ /\ me.pc = "pending"
          /\ slots' = [slots EXCEPT ![i].state = SA_PENDING]
          /\ SetThread(t, IF slots[i].state = SA_READY THEN [me EXCEPT !.pc = "delete"] ELSE Panic(me))
       \/ /\ me.pc = "delete"
          /\ slots' = [slots EXCEPT ![i].state = SA_EMPTY]
          /\ SetThread(t, IF slots[i].state = SA_PENDING THEN [me EXCEPT !.pc = "drop_value"] ELSE Panic(me))
       \/ /\ me.pc = "drop_value"
          /\ slots' = [slots EXCEPT ![i].value = DEAD]
          /\ SetThread(t, [me EXCEPT !.pc = "load_rc"])
       \/ /\ me.pc = "load_rc"
          /\ SetThread(t, IF slots[i].rc = 0 THEN Finish(me, Unit) ELSE Panic(me))
          /\ UNCHANGED slots
    /\ UNCHANGED <<CAPACITY, buffer, head, tail, flag, calls, spurious, pushed, popped, sawEmpty, sawFull,
                   ref, expect, snap, QUEUE_ARRAY_ADDR, refs, ids>>

\* ------------------------------------------------------------ into_id / from_id
SlotRef_into_id_dropping(t) ==
    LET me == Me(t)
        i == me.index
    IN
    /\ me.op = "into_id"
    /\ me.pc = "forget"
    /\ SetThread(t, Finish(me, Usize(i)))
    /\ slots' = [slots EXCEPT ![i].rc = u8_add(@, -1)]
    /\ ids' = [ids EXCEPT ![i] = @ + 1]
    /\ UNCHANGED <<CAPACITY, buffer, head, tail, flag, calls, spurious, pushed, popped, sawEmpty, sawFull,
                   ref, expect, snap, QUEUE_ARRAY_ADDR, refs>>

\* the handle is forgotten, not dropped: its count stays in rc
SlotRef_into_id(t) ==
    LET me == Me(t)
        i == me.index
    IN
    /\ me.op = "into_id"
    /\ me.pc = "forget"
    /\ SetThread(t, Finish(me, Usize(i)))
    /\ ids' = [ids EXCEPT ![i] = @ + 1]
    /\ UNCHANGED <<CAPACITY, buffer, head, tail, flag, calls, spurious, pushed, popped, sawEmpty, sawFull,
                   ref, expect, snap, QUEUE_ARRAY_ADDR, slots, refs>>

SlotRef_from_id(t) ==
    LET me == Me(t)
        id == me.index
    IN
    /\ me.op = "from_id"
    /\ me.pc = "assert"
    /\ IF id < Cardinality(DOMAIN slots)
       THEN SetThread(t, Finish(me, SlotRefTo(id))) /\ refs' = [refs EXCEPT ![id] = @ + 1]
       ELSE SetThread(t, Panic(me)) /\ UNCHANGED refs
    /\ UNCHANGED <<CAPACITY, buffer, head, tail, flag, calls, spurious, pushed, popped, sawEmpty, sawFull,
                   ref, expect, snap, QUEUE_ARRAY_ADDR, slots, ids>>

\* ------------------------------------------------------------ SlotArray callers
SlotOps == {"push", "get", "clone", "drop", "into_id", "from_id"}

FirstPc(op) ==
    CASE op = "push" -> "cas"
      [] op = "get" -> "load1"
      [] op = "clone" -> "fetch_add"
      [] op = "drop" -> "fetch_sub"
      [] op = "into_id" -> "forget"
      [] op = "from_id" -> "assert"

\* threads that are inside an operation on a borrowed handle to cell i
Borrowers(i) == {u \in DOMAIN thread : Running(u) /\ thread[u].op \in {"get", "clone"} /\ thread[u].index = i}

\* a handle to cell i can be moved out of its owner: it exists, and it is not
\* the one handle that the running borrowers borrow
Movable(i) == refs[i] >= (IF Borrowers(i) = {} THEN 1 ELSE 2)

\* the handle contract: an operation on a handle needs the handle, an id given
\* to from_id came from into_id and is given back once
Allowed(op, i) ==
    CASE op = "push" -> i = scan_first(Cardinality(DOMAIN slots))
      [] op \in {"get", "clone"} -> refs[i] >= 1
      [] op \in {"drop", "into_id"} -> Movable(i)
      [] op = "from_id" -> ids[i] >= 1

\* a call by thread t; with alone, a push runs while no other operation does
SlotCall(t, alone) ==
    /\ thread[t].pc = "idle"
    /\ calls[t] < MaxSlotCalls
    /\ \E op \in SlotOps, i \in DOMAIN slots, v \in Values :
          /\ Allowed(op, i)
          /\ op # "push" => v = 1
          /\ alone => IF op = "push"
                      THEN \A u \in DOMAIN thread : ~Running(u)
                      ELSE \A u \in DOMAIN thread : Running(u) => thread[u].op # "push"
          /\ thread' = [thread EXCEPT ![t] = [IdleTask EXCEPT !.pc = FirstPc(op), !.op = op, !.index = i,
                                                             !.value = IF op = "push" THEN v ELSE DEAD,
                                                             !.seen = slots]]
          /\ refs' = IF op \in {"drop", "into_id"} THEN [refs EXCEPT ![i] = @ - 1] ELSE refs
          /\ ids' = IF op = "from_id" THEN [ids EXCEPT ![i] = @ - 1] ELSE ids
    /\ calls' = [calls EXCEPT ![t] = @ + 1]
    /\ UNCHANGED <<CAPACITY, buffer, head, tail, flag, spurious, pushed, popped, sawEmpty, sawFull,
                   ref, expect, snap, QUEUE_ARRAY_ADDR, slots>>

SlotWork(t) ==
    \/ SlotArray_push(t)
    \/ SlotRef_get(t)
    \/ SlotRef_clone(t)
    \/ SlotRef_drop(t)
    \/ SlotRef_into_id(t)
    \/ SlotRef_from_id(t)

\* a fresh array of N cells and no handle to it
InitSlots ==
    /\ slots = SlotArray_new(N)
    /\ refs = [i \in 0..(N - 1) |-> 0]
    /\ ids = [i \in 0..(N - 1) |-> 0]
    /\ thread = [t \in Threads |-> IdleTask]
    /\ calls = [t \in Threads |-> 0]
    /\ CAPACITY = 0
    /\ buffer = <<>>
    /\ head = 0
    /\ tail = 0
    /\ flag = 0
    /\ spurious = 0
    /\ pushed = EmptyBag
    /\ popped = EmptyBag
    /\ sawEmpty = [t \in Threads |-> FALSE]
    /\ sawFull = [t \in Threads |-> FALSE]
    /\ ref = <<>>
    /\ expect = NoRet
    /\ snap = <<>>
    /\ QUEUE_ARRAY_ADDR = None

\* threads that share handles, as in test_parallel; pushes run one at a time
NextRefs == \E t \in Threads : SlotCall(t, TRUE) \/ SlotWork(t)

SpecRefs == InitSlots /\ [][NextRefs]_vars

\* the operations the threads of test_parallel make: push, clone, get, drop
ParallelOps == {"push", "get", "clone", "drop"}

\* a call by thread t with nothing held back: a push may start while other
\* operations, other pushes and drops included, are in progress
ParallelCall(t) ==
    /\ thread[t].pc = "idle"
    /\ calls[t] < MaxSlotCalls
    /\ \E op \in ParallelOps, i \in DOMAIN slots, v \in Values :
          /\ Allowed(op, i)
          /\ op # "push" => v = 1
          /\ thread' = [thread EXCEPT ![t] = [IdleTask EXCEPT !.pc = FirstPc(op), !.op = op, !.index = i,
                                                             !.value = IF op = "push" THEN v ELSE DEAD]]
          /\ refs' = IF op = "drop" THEN [refs EXCEPT ![i] = @ - 1] ELSE refs
    /\ calls' = [calls EXCEPT ![t] = @ + 1]
    /\ UNCHANGED <<CAPACITY, buffer, head, tail, flag, spurious, pushed, popped, sawEmpty, sawFull,
                   ref, expect, snap, QUEUE_ARRAY_ADDR, slots, ids>>

ParallelWork(t) ==
    \/ SlotArray_push(t)
    \/ SlotRef_get(t)
    \/ SlotRef_clone(t)
    \/ SlotRef_drop(t)

NextSlots == \E t \in Threads : ParallelCall(t) \/ ParallelWork(t)

SpecSlots == InitSlots /\ [][NextSlots]_vars

\* -------------------------------------------------- many handles to one cell
\* the operations on the handles of one value: push, clone, drop
ManyOps == {"push", "clone", "drop"}

\* a call by thread t on an array of one cell; no count of calls bounds it:
\* a clone starts while fewer than MaxHandles handles are live
ManyCall(t) ==
    /\ thread[t].pc = "idle"
    /\ \E op \in ManyOps, i \in DOMAIN slots :
          /\ Allowed(op, i)
          /\ op = "clone" => refs[i] < MaxHandles
          /\ IF op = "push"
             THEN \A u \in DOMAIN thread : ~Running(u)
             ELSE \A u \in DOMAIN thread : Running(u) => thread[u].op # "push"
          /\ thread' = [thread EXCEPT ![t] = [IdleTask EXCEPT !.pc = FirstPc(op), !.op = op, !.index = i,
                                                             !.value = IF op = "push" THEN 1 ELSE DEAD]]
          /\ refs' = IF op = "drop" THEN [refs EXCEPT ![i] = @ - 1] ELSE refs
    /\ UNCHANGED <<CAPACITY, buffer, head, tail, flag, calls, spurious, pushed, popped, sawEmpty, sawFull,
                   ref, expect, snap, QUEUE_ARRAY_ADDR, slots, ids>>

ManyWork(t) ==
    \/ SlotArray_push(t)
    \/ SlotRef_clone(t)
    \/ SlotRef_drop(t)

\* a fresh array of one cell and no handle to it
InitMany ==
    /\ slots = SlotArray_new(1)
    /\ refs = [i \in {0} |-> 0]
    /\ ids = [i \in {0} |-> 0]
    /\ thread = [t \in Threads |-> IdleTask]
    /\ calls = [t \in Threads |-> 0]
    /\ CAPACITY = 0
    /\ buffer = <<>>
    /\ head = 0
    /\ tail = 0
    /\ flag = 0
    /\ spurious = 0
    /\ pushed = EmptyBag
    /\ popped = EmptyBag
    /\ sawEmpty = [t \in Threads |-> FALSE]
    /\ sawFull = [t \in Threads |-> FALSE]
    /\ ref = <<>>
    /\ expect = NoRet
    /\ snap = <<>>
    /\ QUEUE_ARRAY_ADDR = None

NextMany == \E t \in Threads : ManyCall(t) \/ ManyWork(t)

SpecMany == InitMany /\ [][NextMany]_vars

\* ===================================================================== api
\* lib.rs: the queue holds QUEUE_LEN items in QUEUE_CAPACITY cells
QUEUE_CAPACITY == QUEUE_LEN + 1

\* usize::MAX: the wildcard msg_type, above every msg_type a caller registers
usize_MAX == MaxMsg + 1

MsgTypes == 1..usize_MAX
NtfIds == 1..MaxNtf
Pids == 1..MaxPid

LockFreeDeque_new == [buffer |-> [i \in 0..(QUEUE_CAPACITY - 1) |-> EMPTY_CELL], head |-> 0, tail |-> 0]

\* #[derive(Default)] struct PerProcess
PerProcess_default == [deque |-> LockFreeDeque_new, pid |-> 0, map |-> SlotArray_new(ARRAY_LEN)]

\* ---------------------------------------- operations run by a single caller
\* SlotArray::push with no other operation in progress
Pushed(a, v) ==
    LET free == {j \in DOMAIN a : Claimable(a[j])} IN
    IF free = {} THEN [array |-> a, ret |-> Full, ok |-> TRUE]
    ELSE LET i == CHOOSE j \in free : \A k \in free : j <= k IN
         [array |-> [a EXCEPT ![i] = [state |-> SA_READY, rc |-> u8_add(a[i].rc, 1), value |-> v]],
          ret |-> SlotRefTo(i),
          ok |-> a[i].rc = 0]

\* a drop that reaches the cell after the one its handle names
DroppedNext(a, i) ==
    [array |-> [a EXCEPT ![(i + 1) % ARRAY_LEN].rc = u8_add(@, -1)], ok |-> TRUE]

\* Drop for SlotRef with no other operation in progress
Dropped(a, i) ==
    LET dec == [a EXCEPT ![i].rc = u8_add(@, -1)] IN
    IF ~IsLast(a[i].rc) THEN [array |-> dec, ok |-> TRUE]
    ELSE IF a[i].state # SA_READY THEN [array |-> [dec EXCEPT ![i].state = SA_PENDING], ok |-> FALSE]
    ELSE [array |-> [dec EXCEPT ![i].state = SA_EMPTY, ![i].value = DEAD], ok |-> dec[i].rc = 0]

\* SlotRef::into_id: the handle leaves the function without a drop
Forgotten(a, i) == [array |-> a, ok |-> TRUE]

\* SlotArray::get().unwrap() behind `slot_ref.deque`, `slot_ref.pid`, `slot_ref.map`
Derefs(a, id) == a[id].state = SA_READY

\* push_front with no other operation in progress
push_front_alone(d, item) ==
    LET new_head == Prev(d.head) IN
    IF IsFull(new_head, d.tail) THEN [deque |-> d, ret |-> Err(item)]
    ELSE IF ~PushClaimable(d.buffer[new_head].state) THEN [deque |-> d, ret |-> NoRet]
    ELSE [deque |-> [d EXCEPT !.head = new_head,
                              !.buffer[new_head] = [data |-> item, state |-> SLOT_READY]],
          ret |-> Ok]

\* pop_back with no other operation in progress
pop_back_alone(d) ==
    LET last_pos == Prev(d.tail) IN
    IF IsEmptyCheck(d.head, d.tail) THEN [deque |-> d, ret |-> None]
    ELSE IF ~PopClaimable(d.buffer[last_pos].state) THEN [deque |-> d, ret |-> NoRet]
    ELSE [deque |-> [d EXCEPT !.tail = last_pos, !.buffer[last_pos].state = SLOT_EMPTY],
          ret |-> Some(d.buffer[last_pos].data)]

\* the entries a lookup of msg_type matches; any = the wildcard counts
Matches(map, msg_type, any) ==
    {i \in DOMAIN map : /\ map[i].state = SA_READY
                        /\ \/ map[i].value[1] = msg_type
                           \/ any /\ map[i].value[1] = usize_MAX}

\* "for i in 0..ARRAY_LEN": the first match
First(S) == CHOOSE i \in S : \A k \in S : i <= k

\* drop_slot: the entry is destroyed and its cell is free again
drop_slot(map, i) == [map EXCEPT ![i] = NEW_SLOT]

\* ------------------------------------------------------------- api functions
ApiOps == {"register_process", "into_id", "slotref_from_id", "clone", "drop", "deque_push", "deque_pop",
           "set_pid", "map_add_entry", "map_get_ntf_id", "map_pop_ntf_id"}

get_queue_array_unchecked == TRUE

\* get_queue_array: QUEUE_ARRAY_ADDR.get().expect(..) finds the anchor set
get_queue_array_ok == QUEUE_ARRAY_ADDR # None

\* the call returns r, or panics when an assertion or unwrap of it failed
ApiReturn(t, op, id, arg, out, r) ==
    /\ get_queue_array_ok
    /\ thread[t].pc = "idle"
    /\ calls[t] < MaxApiCalls
    /\ calls' = [calls EXCEPT ![t] = @ + 1]
    /\ slots' = out.array
    /\ thread' = [thread EXCEPT ![t] =
                    IF out.ok /\ r # NoRet
                    THEN [IdleTask EXCEPT !.op = op, !.index = id, !.value = arg, !.ret = r]
                    ELSE [IdleTask EXCEPT !.op = op, !.index = id, !.value = arg, !.ret = Abort,
                                          !.pc = "aborted"]]
    /\ UNCHANGED <<CAPACITY, buffer, head, tail, flag, spurious, pushed, popped, sawEmpty, sawFull,
                   ref, expect, snap, QUEUE_ARRAY_ADDR>>

\* from_id(process_id) found the id in range but the deref panicked
ApiPanics(t, op, id, arg) ==
    /\ ~Derefs(slots, id)
    /\ ApiReturn(t, op, id, arg, [array |-> slots, ok |-> FALSE], Abort)
    /\ UNCHANGED <<refs, ids>>

register_process(t) ==
    LET p == Pushed(slots, PerProcess_default) IN
    /\ ApiReturn(t, "register_process", 0, 0, p, p.ret)
    /\ refs' = IF p.ok /\ p.ret # Full THEN [refs EXCEPT ![p.ret[2]] = @ + 1] ELSE refs
    /\ UNCHANGED ids

\* the caller turns a handle it owns into an id
into_id(t) ==
    \E i \in DOMAIN slots :
        /\ refs[i] >= 1
        /\ ApiReturn(t, "into_id", i, 0, Forgotten(slots, i), Usize(i))
        /\ refs' = [refs EXCEPT ![i] = @ - 1]
        /\ ids' = [ids EXCEPT ![i] = @ + 1]

slotref_from_id(t) ==
    \E id \in DOMAIN slots :
        /\ ids[id] >= 1
        /\ ApiReturn(t, "slotref_from_id", id, 0, Forgotten(slots, id), SlotRefTo(id))
        /\ refs' = [refs EXCEPT ![id] = @ + 1]
        /\ ids' = [ids EXCEPT ![id] = @ - 1]

\* Clone for SlotRef with no other operation in progress
Cloned(a, i) == [array |-> [a EXCEPT ![i].rc = u8_add(@, 1)], ok |-> a[i].rc >= 1]

\* the caller clones a handle it owns
clone(t) ==
    \E i \in DOMAIN slots :
        /\ refs[i] >= 1
        /\ ApiReturn(t, "clone", i, 0, Cloned(slots, i), SlotRefTo(i))
        /\ refs' = [refs EXCEPT ![i] = @ + 1]
        /\ UNCHANGED ids

\* the caller drops a handle it owns
drop(t) ==
    \E i \in DOMAIN slots :
        /\ refs[i] >= 1
        /\ ApiReturn(t, "drop", i, 0, Dropped(slots, i), Unit)
        /\ refs' = [refs EXCEPT ![i] = @ - 1]
        /\ UNCHANGED ids

deque_exit_dropping(a, id) == Dropped(a, id)

\* "slot_ref.into_id(); // prevent drop"
deque_exit(a, id) == Forgotten(a, id)

api_deque_push(t) ==
    \E id \in DOMAIN slots, item \in Values :
        /\ ids[id] >= 1
        /\ \/ ApiPanics(t, "deque_push", id, item)
           \/ /\ Derefs(slots, id)
              /\ LET r == push_front_alone(slots[id].value.deque, item) IN
                 ApiReturn(t, "deque_push", id, item,
                           deque_exit([slots EXCEPT ![id].value.deque = r.deque], id), r.ret)
              /\ UNCHANGED <<refs, ids>>

api_deque_pop(t) ==
    \E id \in DOMAIN slots :
        /\ ids[id] >= 1
        /\ \/ ApiPanics(t, "deque_pop", id, 0)
           \/ /\ Derefs(slots, id)
              /\ LET r == pop_back_alone(slots[id].value.deque) IN
                 ApiReturn(t, "deque_pop", id, 0,
                           deque_exit([slots EXCEPT ![id].value.deque = r.deque], id), r.ret)
              /\ UNCHANGED <<refs, ids>>

\* slot_ref goes out of scope at the end of set_pid and of the three map
\* functions: no into_id keeps it from being dropped
set_pid(t) ==
    \E id \in DOMAIN slots, pid \in Pids :
        /\ ids[id] >= 1
        /\ \/ ApiPanics(t, "set_pid", id, pid)
           \/ /\ Derefs(slots, id)
              /\ ApiReturn(t, "set_pid", id, pid,
                           Dropped([slots EXCEPT ![id].value.pid = pid], id), Unit)
              /\ UNCHANGED <<refs, ids>>

map_add_entry(t) ==
    \E id \in DOMAIN slots, msg_type \in MsgTypes, ntf_id \in NtfIds :
        /\ ids[id] >= 1
        /\ \/ ApiPanics(t, "map_add_entry", id, <<msg_type, ntf_id>>)
           \/ /\ Derefs(slots, id)
              /\ LET p == Pushed(slots[id].value.map, <<msg_type, ntf_id>>)
                     out == Dropped([slots EXCEPT ![id].value.map = p.array], id)
                 IN ApiReturn(t, "map_add_entry", id, <<msg_type, ntf_id>>,
                              [out EXCEPT !.ok = @ /\ p.ok],
                              IF p.ret = Full THEN Err(0) ELSE Ok)
              /\ UNCHANGED <<refs, ids>>

map_get_ntf_id(t) ==
    \E id \in DOMAIN slots, msg_type \in MsgTypes :
        /\ ids[id] >= 1
        /\ \/ ApiPanics(t, "map_get_ntf_id", id, msg_type)
           \/ /\ Derefs(slots, id)
              /\ LET found == Matches(slots[id].value.map, msg_type, TRUE) IN
                 ApiReturn(t, "map_get_ntf_id", id, msg_type, Dropped(slots, id),
                           IF found = {} THEN None
                           ELSE Some(slots[id].value.map[First(found)].value[2]))
              /\ UNCHANGED <<refs, ids>>

map_pop_ntf_id(t) ==
    \E id \in DOMAIN slots, msg_type \in MsgTypes :
        /\ ids[id] >= 1
        /\ \/ ApiPanics(t, "map_pop_ntf_id", id, msg_type)
           \/ /\ Derefs(slots, id)
              /\ LET map == slots[id].value.map
                     found == Matches(map, msg_type, FALSE)
                 IN IF found = {}
                    THEN ApiReturn(t, "map_pop_ntf_id", id, msg_type, Dropped(slots, id), None)
                    ELSE ApiReturn(t, "map_pop_ntf_id", id, msg_type,
                                   Dropped([slots EXCEPT ![id].value.map = drop_slot(map, First(found))], id),
                                   Some(map[First(found)].value[2]))
              /\ UNCHANGED <<refs, ids>>

Caller == 1

\* the memory of the queue array: ARRAY_LEN zeroed cells
ArrayMemory ==
    /\ slots = SlotArray_new(ARRAY_LEN)
    /\ refs = [i \in 0..(ARRAY_LEN - 1) |-> 0]
    /\ ids = [i \in 0..(ARRAY_LEN - 1) |-> 0]
    /\ thread = [t \in {Caller} |-> IdleTask]
    /\ calls = [t \in {Caller} |-> 0]
    /\ CAPACITY = QUEUE_CAPACITY
    /\ buffer = <<>>
    /\ head = 0
    /\ tail = 0
    /\ flag = 0
    /\ spurious = 0
    /\ pushed = EmptyBag
    /\ popped = EmptyBag
    /\ sawEmpty = [t \in {Caller} |-> FALSE]
    /\ sawFull = [t \in {Caller} |-> FALSE]
    /\ ref = <<>>
    /\ expect = NoRet
    /\ snap = <<>>

\* after set_queue_array_addr_and_init: an empty array of ARRAY_LEN processes
InitApi ==
    /\ ArrayMemory
    /\ QUEUE_ARRAY_ADDR = Some(1)

NextApi ==
    \/ register_process(Caller)
    \/ into_id(Caller)
    \/ slotref_from_id(Caller)
    \/ clone(Caller)
    \/ drop(Caller)
    \/ api_deque_push(Caller)
    \/ api_deque_pop(Caller)
    \/ set_pid(Caller)
    \/ map_add_entry(Caller)
    \/ map_get_ntf_id(Caller)
    \/ map_pop_ntf_id(Caller)

SpecApi == InitApi /\ [][NextApi]_vars

\* ------------------------------------------------------------------ the anchor
\* the api functions that reach the queue array through get_queue_array
AnchorOps == ApiOps \ {"into_id", "clone", "drop"}

\* a call before the anchor is set: the expect in get_queue_array panics
get_queue_array_panics(t) ==
    /\ QUEUE_ARRAY_ADDR = None
    /\ thread[t].pc = "idle"
    /\ calls[t] < MaxApiCalls
    /\ calls' = [calls EXCEPT ![t] = @ + 1]
    /\ \E op \in AnchorOps, id \in DOMAIN slots :
          thread' = [thread EXCEPT ![t] = [IdleTask EXCEPT !.op = op, !.index = id, !.ret = Abort,
                                                          !.pc = "aborted"]]
    /\ UNCHANGED <<CAPACITY, buffer, head, tail, flag, spurious, pushed, popped, sawEmpty, sawFull,
                   ref, expect, snap, QUEUE_ARRAY_ADDR, slots, refs, ids>>

\* init_once(addr) and the write of SlotArray::new() to the address
set_queue_array_addr_and_init(t) ==
    /\ QUEUE_ARRAY_ADDR = None
    /\ thread[t].pc = "idle"
    /\ QUEUE_ARRAY_ADDR' = Some(1)
    /\ slots' = SlotArray_new(ARRAY_LEN)
    /\ UNCHANGED <<CAPACITY, buffer, head, tail, thread, flag, calls, spurious, pushed, popped,
                   sawEmpty, sawFull, ref, expect, snap, refs, ids>>

\* the api functions that rebuild a handle with SlotRef::from_id
FromIdOps == AnchorOps \ {"register_process"}

\* ids that are no index of the queue array
OutOfRange == ARRAY_LEN..(ARRAY_LEN + 1)

from_id_wraps(a, id) == Dropped(a, id % ARRAY_LEN)

\* the assert in from_id failed: no cell was reached
from_id_failed(a, id) == [array |-> a, ok |-> FALSE]

\* a call with an id out of range: assert!(id < ARRAY_LEN) panics
from_id_panics(t) ==
    \E op \in FromIdOps, id \in OutOfRange :
        /\ ~(id < ARRAY_LEN)
        /\ ApiReturn(t, op, id, 0, from_id_failed(slots, id), Abort)
        /\ UNCHANGED <<refs, ids>>

\* the mapped, zeroed memory of the array before the anchor is set
InitAnchor ==
    /\ ArrayMemory
    /\ QUEUE_ARRAY_ADDR = None

NextAnchor ==
    \/ set_queue_array_addr_and_init(Caller)
    \/ get_queue_array_panics(Caller)
    \/ from_id_panics(Caller)
    \/ NextApi

SpecAnchor == InitAnchor /\ [][NextAnchor]_vars

\* ------------------------------------------------------ one mailbox, one receiver
\* deque_push forwards to push_front, deque_pop to pop_back
deque_push_op == "push_front"

deque_pop_op == "pop_back"

\* Thread 1 sends 1 and then 2, every other producer sends 3, the main thread
\* is the only receiver.
InitOrder ==
    /\ new(CapMix)
    /\ thread = [t \in Workers |->
                    IF t = 1 THEN [IdleThread EXCEPT !.at = "push", !.todo = <<1, 2>>]
                    ELSE IF t \in Producers THEN [IdleThread EXCEPT !.at = "push", !.todo = <<3>>]
                    ELSE IF t = Main THEN [IdleThread EXCEPT !.at = "flag"]
                    ELSE [IdleThread EXCEPT !.at = "done"]]
    /\ flag = NProducers
    /\ calls = [t \in Workers |-> 0]
    /\ spurious = 0
    /\ pushed = EmptyBag
    /\ popped = EmptyBag
    /\ sawEmpty = [t \in Workers |-> FALSE]
    /\ sawFull = [t \in Workers |-> FALSE]
    /\ ref = <<>>
    /\ expect = NoRet
    /\ snap = <<>>
    /\ QUEUE_ARRAY_ADDR = None
    /\ slots = <<>>
    /\ refs = <<>>
    /\ ids = <<>>

deque_push(t) == producer(t, {deque_push_op}, FALSE) \/ push_front(t)

deque_pop(t) == consume(t, {deque_pop_op}) \/ pop_back(t) \/ is_empty(t)

NextOrder == \E t \in Workers : deque_push(t) \/ deque_pop(t)

SpecOrder == InitOrder /\ [][NextOrder]_vars

\* =================================================================== claims
ReadyCount(b) == Cardinality({i \in DOMAIN b : b[i].state = SLOT_READY})

\* values of the cells that hold an element: READY, or READING (claimed by a pop
\* that has not returned it yet)
Resident ==
    LET F[i \in 0..CAPACITY] ==
            IF i = CAPACITY THEN EmptyBag
            ELSE (IF buffer[i].state \in {SLOT_READY, SLOT_READING}
                  THEN SetToBag({buffer[i].data}) ELSE EmptyBag) (+) F[i + 1]
    IN F[0]

\* pops that have advanced their index and not returned yet
Committed == {t \in DOMAIN thread : thread[t].op \in PopOps /\ thread[t].pc \in {"read", "release"}}

Returned(t) == ~Running(t) /\ thread[t].ret # NoRet

\* C1: the number of elements whose push has completed and that no pop has taken
\* (a pop takes an element when it advances its index) never exceeds CAPACITY - 1.
C1_AtMostCapacityMinusOne ==
    BagCardinality(pushed) - (BagCardinality(popped) + Cardinality(Committed)) <= CAPACITY - 1

\* C2: in every reachable state the bag of the values whose push succeeded equals
\* the bag of the values returned by pops plus the bag of the values held in cells.
C2_Conservation == pushed = popped (+) Resident

C2_Witness ==
    /\ BagCardinality(popped) >= 1
    /\ BagCardinality(Resident) >= 1
    /\ \E t \in DOMAIN thread : thread[t].pc = "publish"

\* C3: with one thread, every result of push_front, push_back, pop_front, pop_back,
\* len and is_empty is the result of the same call on the reference deque bounded
\* to CAPACITY - 1 elements.
C3_SequentialRefinement == Returned(1) => thread[1].ret = expect

C3_Witness ==
    /\ Returned(1)
    /\ thread[1].op = "pop_back"
    /\ thread[1].ret[1] = "Some"
    /\ Len(ref) = 1
    /\ calls[1] >= 4

\* C4: a push_front or push_back on a deque that holds CAPACITY - 1 elements, with
\* no other operation in progress, returns Err with the value passed in and leaves
\* head, tail and every cell as they were.
C4_FullPushReturnsItem ==
    (/\ Returned(1)
     /\ thread[1].op \in {"push_front", "push_back"}
     /\ ReadyCount(snap.buffer) = CAPACITY - 1)
    => /\ thread[1].ret = Err(snap.item)
       /\ <<head, tail, buffer>> = <<snap.head, snap.tail, snap.buffer>>

C4_Witness ==
    /\ Returned(1)
    /\ thread[1].op = "push_front"
    /\ ReadyCount(snap.buffer) = CAPACITY - 1
    /\ snap.head # 0
    /\ thread[1].ret[1] = "Err"

\* C5: a pop_front or pop_back on an empty deque, with no other operation in
\* progress, returns None and leaves head, tail and every cell as they were.
C5_EmptyPopReturnsNone ==
    (/\ Returned(1)
     /\ thread[1].op \in PopOps
     /\ ReadyCount(snap.buffer) = 0)
    => /\ thread[1].ret = None
       /\ <<head, tail, buffer>> = <<snap.head, snap.tail, snap.buffer>>

C5_Witness ==
    /\ Returned(1)
    /\ thread[1].op = "pop_back"
    /\ ReadyCount(snap.buffer) = 0
    /\ snap.head # 0
    /\ BagCardinality(popped) >= 1
    /\ thread[1].ret = None

\* pushes that were started and have not returned Err
PushesStarted ==
    BagCardinality(pushed)
    + Cardinality({t \in DOMAIN thread : Running(t) /\ thread[t].op \in PushOps})

\* C6: a pop returns None only if at some instant between its start and its
\* return no cell of the deque was READY.  Stated for the runs in which at most
\* CAPACITY - 1 values are pushed at all, where the deque cannot be overfull.
C6_NoneOnlyIfEmpty ==
    \A t \in DOMAIN thread :
        (/\ Returned(t)
         /\ thread[t].op \in PopOps
         /\ thread[t].ret = None
         /\ PushesStarted <= CAPACITY - 1) => sawEmpty[t]

\* every thread of the test has left its loop
AllDone == \A t \in DOMAIN thread : thread[t].at = "done"

\* the values the test hands to its pushes
Inputs(filled, pad) ==
    LET all == [t \in Producers |-> [v \in {t} |-> pad]]
        RECURSIVE Sum(_)
        Sum(P) == IF P = {} THEN EmptyBag
                  ELSE LET p == CHOOSE x \in P : TRUE IN all[p] (+) Sum(P \ {p})
    IN Sum(Producers) (+) (IF filled = 0 THEN EmptyBag ELSE [v \in {0} |-> filled])

C8_DrainsFromFull ==
    /\ <>[]AllDone
    /\ [](AllDone => popped = Inputs(Cap - 1, Pad))

\* C9: a call of thread 1 returns after finitely many steps of thread 1,
\* whatever the other threads do, suspended for ever inside a call included.
C9_NonBlocking == Running(1) ~> ~Running(1)

\* a producer between its index CAS and its READY store
Writing(t) == thread[t].op \in PushOps /\ thread[t].pc \in {"write", "publish"}

\* a consumer between its claim of a cell and the store that ends it
Reading(t) == thread[t].op \in PopOps /\ thread[t].pc \in {"cas_index", "rollback", "read", "release"}

GuardHeld(t) == thread[t].op \in {"push_slot_front", "push_slot_back"} /\ Writing(t)

\* C10: a value is observable only from its producer's READY store on: while a
\* SlotGuard is held (and while any push is between its index CAS and its READY
\* store) the cell is WRITING and no pop has claimed it, dropping the guard leaves
\* the cell READY, and every value a pop has read was published by a READY store.
C10_VisibleOnlyWhenReady ==
    [][/\ \A t \in DOMAIN thread :
            Writing(t)' =>
               /\ buffer'[thread'[t].slot].state = SLOT_WRITING
               /\ \A u \in DOMAIN thread : ~(Reading(u)' /\ thread'[u].slot = thread'[t].slot)
       /\ \A t \in DOMAIN thread :
            (GuardHeld(t) /\ ~GuardHeld(t)') => buffer'[thread[t].slot].state = SLOT_READY
       /\ \A u \in DOMAIN thread :
            (thread'[u].op \in PopOps /\ thread'[u].pc = "release") =>
               BagIn(thread'[u].item, pushed')
      ]_vars

C10_Witness ==
    \E t, u \in DOMAIN thread :
        /\ GuardHeld(t)
        /\ thread[t].pc = "publish"
        /\ thread[u].op \in PopOps
        /\ thread[u].pc = "cas_slot"
        /\ thread[u].slot = thread[t].slot

\* C11: thread 1 sends 1 and then 2 through deque_push and one receiver takes
\* the messages through deque_pop: 2 is never received before 1, whatever the
\* other producers push.
C11_SenderOrder == BagIn(2, popped) => BagIn(1, popped)

C11_Witness ==
    /\ BagIn(1, popped)
    /\ BagIn(3, popped)
    /\ ~BagIn(2, popped)
    /\ \E i \in DOMAIN buffer : buffer[i] = [data |-> 2, state |-> SLOT_READY]

\* ---------------------------------------------------------- SlotArray claims
EmptyCells(a) == {j \in DOMAIN a : a[j].state = SA_EMPTY}

Lowest(S) == CHOOSE j \in S : \A k \in S : j <= k

\* thread t returns from op in this step
Returns(t, op) == thread[t].op = op /\ Running(t) /\ thread'[t].pc = "idle"

Quiescent == \A t \in DOMAIN thread : ~Running(t)

\* C12: a push that runs while no other operation does stores its value in
\* the EMPTY cell with the lowest index and returns a handle with that index:
\* index k - 1 for the k-th push into a fresh array, and the lowest reclaimed
\* index after a reclaim.
C12_LowestEmptyIndex ==
    [][\A t \in DOMAIN thread :
          Returns(t, "push") /\ EmptyCells(thread[t].seen) # {} =>
              LET i == Lowest(EmptyCells(thread[t].seen)) IN
              /\ thread'[t].ret = SlotRefTo(i)
              /\ slots'[i].value = thread[t].value
              /\ slots'[i].state = SA_READY
              /\ \A j \in DOMAIN slots : j # i => slots'[j] = thread[t].seen[j]]_vars

\* a push has just reused cell 0, reclaimed while cell 1 stayed in use
C12_Witness ==
    \E t \in DOMAIN thread :
        /\ thread[t].op = "push" /\ thread[t].ret = SlotRefTo(0)
        /\ thread[t].seen[0].state = SA_EMPTY /\ thread[t].seen[1].state = SA_READY
        /\ thread[t].seen[0].rc = 0
        /\ slots[0].state = SA_READY /\ slots[0].value = thread[t].value

Reclaiming(i) ==
    {t \in DOMAIN thread : thread[t].op = "drop" /\ thread[t].index = i
                           /\ thread[t].pc \in {"pending", "delete", "drop_value", "load_rc"}}

\* C14: while threads clone and drop handles in any order, a cell with a live
\* SlotRef is READY and keeps its value; a cell becomes EMPTY only in the drop
\* of its last handle, with rc = 0, by one thread; and once every handle is
\* dropped and no operation runs, the cell is EMPTY with rc = 0.
C14_LiveUntilLastDrop ==
    /\ [](\A i \in DOMAIN slots :
            /\ refs[i] >= 1 => slots[i].state = SA_READY /\ slots[i].value # DEAD
            /\ Cardinality(Reclaiming(i)) <= 1
            /\ Quiescent /\ refs[i] + ids[i] = 0 => slots[i].state = SA_EMPTY /\ slots[i].rc = 0)
    /\ [][\A i \in DOMAIN slots :
            /\ refs[i] >= 1 /\ refs'[i] >= 1 => slots'[i].value = slots[i].value
            /\ slots[i].state # SA_EMPTY /\ slots'[i].state = SA_EMPTY =>
                  /\ refs[i] = 0 /\ ids[i] = 0 /\ slots[i].rc = 0
                  /\ \E t \in Reclaiming(i) : thread[t].pc = "delete" /\ thread'[t].pc = "drop_value"]_vars

\* two threads dropped the two handles of a cell, and a push has reused it
C14_Witness ==
    \E t, u \in DOMAIN thread :
        /\ t # u
        /\ thread[u].op = "drop" /\ thread[u].ret = Unit
        /\ thread[t].op = "push" /\ thread[t].ret = SlotRefTo(thread[u].index)
        /\ thread[t].seen[thread[u].index] = NEW_SLOT
        /\ calls[u] = 3 /\ calls[t] = 2
        /\ slots[thread[u].index].state = SA_READY /\ slots[thread[u].index].rc = 1

\* handles to cell i that exist: live SlotRefs, and ids not yet given back
Outstanding(i) == refs[i] + ids[i]

\* C15: when no SlotArray operation is in progress, the rc of every cell is
\* the number of outstanding handles to it; the fetch_add of push takes rc
\* from 0 to 1, that of clone adds 1, the fetch_sub of drop subtracts 1.
C15_RcCountsHandles ==
    /\ [](Quiescent => \A i \in DOMAIN slots : slots[i].rc = Outstanding(i))
    /\ [][\A t \in DOMAIN thread :
            LET i == thread[t].index IN
            /\ Returns(t, "push") /\ thread'[t].ret # Full => slots[i].rc = 0 /\ slots'[i].rc = 1
            /\ Returns(t, "clone") => slots'[i].rc = slots[i].rc + 1 /\ thread'[t].ret = SlotRefTo(i)
            /\ thread[t].op = "drop" /\ thread[t].pc = "fetch_sub" /\ thread'[t].pc # "fetch_sub"
                  => slots'[i].rc = slots[i].rc - 1]_vars

\* nothing runs, and a cell has two live SlotRefs and one id: rc = 3
C15_Witness ==
    /\ Quiescent
    /\ \E i \in DOMAIN slots : refs[i] = 2 /\ ids[i] = 1 /\ slots[i].rc = 3
    /\ \E t \in DOMAIN thread : thread[t].op = "clone" /\ thread[t].ret = SlotRefTo(thread[t].index)

\* thread t takes a step of one of the two id conversions
Converts(t) == thread'[t] # thread[t] /\ thread'[t].op \in {"into_id", "from_id"}

\* C16: into_id returns the index of the handle, from_id on that id returns a
\* handle with the same index, no step of either changes the rc, state or
\* value of any cell, the cell keeps its value while the id is outstanding,
\* and a handle dereferences to the value stored in its cell.
C16_IdRoundTrip ==
    /\ [](\A i \in DOMAIN slots : ids[i] >= 1 => slots[i].state = SA_READY /\ slots[i].value # DEAD)
    /\ [][\A t \in DOMAIN thread :
            LET i == thread[t].index IN
            /\ Converts(t) => slots' = slots
            /\ Returns(t, "into_id") => thread'[t].ret = Usize(i) /\ ids'[i] = ids[i] + 1
            /\ Returns(t, "from_id") => thread'[t].ret = SlotRefTo(i) /\ refs'[i] = refs[i] + 1
            /\ thread[t].op = "from_id" /\ Running(t) => slots'[i].value = slots[i].value
            /\ ids[i] >= 1 => slots'[i].value = slots[i].value
            /\ Returns(t, "get") => thread'[t].ret = Some(slots[i].value)]_vars

\* thread 1 pushed 2, turned the handle into an id and the id back into the
\* only handle of the cell
C16_Witness ==
    /\ thread[1].op = "from_id" /\ thread[1].ret = SlotRefTo(0) /\ calls[1] = 3 /\ calls[2] = 0
    /\ slots[0] = [state |-> SA_READY, rc |-> 1, value |-> 2]
    /\ refs[0] = 1 /\ ids[0] = 0

\* ----------------------------------------------------------------- api claims
\* this step is a call of the api function op
Called(op) == calls' # calls /\ thread'[Caller].op = op

\* cell i holds a process before and after the step
Stays(i) == slots[i].state = SA_READY /\ slots'[i].state = SA_READY

\* C17: a deque_push or deque_pop, whether it succeeds or reports full or
\* none, leaves the rc and the state of every cell of the queue array as they
\* were, and the pid and routes of the process too.
C17_MailboxCallsKeepCell ==
    [][Called("deque_push") \/ Called("deque_pop") =>
          \A i \in DOMAIN slots :
              /\ slots'[i].rc = slots[i].rc
              /\ slots'[i].state = slots[i].state
              /\ Stays(i) => /\ slots'[i].value.pid = slots[i].value.pid
                             /\ slots'[i].value.map = slots[i].value.map]_vars

\* a deque_push was refused by a full mailbox after a deque_pop-free fill
C17_Witness ==
    /\ thread[Caller].op = "deque_push" /\ thread[Caller].ret[1] = "Err"
    /\ LET i == thread[Caller].index IN
       /\ slots[i].state = SA_READY /\ slots[i].rc = 1 /\ ids[i] = 1
       /\ slots[i].value.deque.head # slots[i].value.deque.tail

\* C18: a set_pid changes the pid of the process and nothing else: the rc and
\* the state of every cell, the mailbox and the routes stay as they were.
C18_SetPidChangesOnlyPid ==
    [][Called("set_pid") =>
          \A i \in DOMAIN slots :
              /\ slots'[i].rc = slots[i].rc
              /\ slots'[i].state = slots[i].state
              /\ Stays(i) => /\ slots'[i].value.deque = slots[i].value.deque
                             /\ slots'[i].value.map = slots[i].value.map]_vars

MapOps == {"map_add_entry", "map_get_ntf_id", "map_pop_ntf_id"}

\* C19: once a process is registered and its handle is an id, no call of
\* map_add_entry, map_get_ntf_id or map_pop_ntf_id changes the rc or the state
\* of the cell of the process: the process stays registered.
C19_MapCallsKeepCell ==
    [][(\E op \in MapOps : Called(op)) =>
          \A i \in DOMAIN slots :
              /\ slots'[i].rc = slots[i].rc
              /\ slots'[i].state = slots[i].state]_vars

\* a PerProcess as register_process hands it out: empty mailbox, pid 0, no route
Fresh(p) ==
    /\ p.pid = 0
    /\ p.deque.head = p.deque.tail
    /\ \A j \in DOMAIN p.deque.buffer : p.deque.buffer[j].state = SLOT_EMPTY
    /\ \A j \in DOMAIN p.map : p.map[j].state = SA_EMPTY /\ p.map[j].rc = 0

\* C20: register_process returns a handle to the lowest free cell, which then
\* holds a PerProcess with an empty mailbox, pid 0 and no routes, whatever an
\* earlier process left in that cell; when all ARRAY_LEN cells are in use it
\* returns full and changes nothing.
C20_RegisterFreshProcess ==
    [][Called("register_process") =>
          IF EmptyCells(slots) = {}
          THEN thread'[Caller].ret = <<"Err", 0>> /\ slots' = slots /\ refs' = refs
          ELSE LET i == Lowest(EmptyCells(slots)) IN
               /\ thread'[Caller].ret = SlotRefTo(i)
               /\ slots'[i].state = SA_READY /\ slots'[i].rc = 1
               /\ Fresh(slots'[i].value)
               /\ refs'[i] = refs[i] + 1
               /\ \A j \in DOMAIN slots : j # i => slots'[j] = slots[j]]_vars

\* the routing entries of process id that a lookup of msg_type t may return
\* (wild: the SENTINEL_ANY entries too); none when the cell holds no process
Routes(a, id, t, wild) ==
    IF a[id].state # SA_READY THEN {}
    ELSE {j \in DOMAIN a[id].value.map :
             /\ a[id].value.map[j].state = SA_READY
             /\ a[id].value.map[j].value[1] \in (IF wild THEN {t, usize_MAX} ELSE {t})}

\* C21: map_get_ntf_id(process_id, t) on an id the caller holds returns the
\* ntf_id of the lowest-index entry whose msg_type is t or SENTINEL_ANY, and
\* none when the process has no such entry.
C21_GetFirstMatch ==
    [][Called("map_get_ntf_id") =>
          LET id == thread'[Caller].index
              found == Routes(slots, id, thread'[Caller].value, TRUE)
          IN thread'[Caller].ret = IF found = {} THEN <<"None", 0>>
                                   ELSE <<"Some", slots[id].value.map[Lowest(found)].value[2]>>]_vars

\* the routing table of process id; a cell without a process has no routes
Table(a, id) == IF a[id].state = SA_READY THEN a[id].value.map ELSE SlotArray_new(ARRAY_LEN)

\* C22: map_pop_ntf_id(process_id, t) on an id the caller holds removes the
\* lowest-index entry whose msg_type is exactly t, and only that entry, and
\* returns its ntf_id; without such an entry it returns none and the table
\* stays as it was.  A wildcard entry is removed only by a query for
\* SENTINEL_ANY, and a lookup after the removal does not see the removed entry.
C22_PopFirstExactMatch ==
    [][Called("map_pop_ntf_id") =>
          LET id == thread'[Caller].index
              found == Routes(slots, id, thread'[Caller].value, FALSE)
          IN IF found = {}
             THEN /\ thread'[Caller].ret = <<"None", 0>>
                  /\ Table(slots', id) = Table(slots, id)
             ELSE /\ thread'[Caller].ret = <<"Some", Table(slots, id)[Lowest(found)].value[2]>>
                  /\ Table(slots', id)[Lowest(found)].state = SA_EMPTY
                  /\ \A j \in DOMAIN Table(slots, id) :
                        j # Lowest(found) => Table(slots', id)[j] = Table(slots, id)[j]]_vars

\* this step is map_pop_ntf_id(p, t) right after a map_add_entry(p, t, n)
\* that returned Ok on a table without an entry for t
PopsTheAdded ==
    /\ Called("map_pop_ntf_id")
    /\ thread[Caller].op = "map_add_entry" /\ thread[Caller].ret = Ok
    /\ thread'[Caller].index = thread[Caller].index
    /\ thread'[Caller].value = thread[Caller].value[1]
    /\ Cardinality(Routes(slots, thread[Caller].index, thread[Caller].value[1], FALSE)) <= 1

\* C23: on a table without an entry for t and with a free cell,
\* map_add_entry(p, t, n) and then map_pop_ntf_id(p, t) returns n and leaves
\* the table as it was before the add: the cell of the added entry is EMPTY
\* with rc = 0 again and every other cell is as it was.
C23_AddThenPop ==
    [][PopsTheAdded =>
          LET id == thread[Caller].index
              added == Routes(slots, id, thread[Caller].value[1], FALSE)
          IN /\ thread'[Caller].ret = <<"Some", thread[Caller].value[2]>>
             /\ \A j \in DOMAIN Table(slots, id) :
                   Table(slots', id)[j] = IF j \in added THEN NEW_SLOT ELSE Table(slots, id)[j]]_vars

\* C24: an api call made before set_queue_array_addr_and_init aborts: it
\* returns no value, and the queue array, the handles and the anchor are as
\* they were.
C24_UninitializedAnchorAborts ==
    [][QUEUE_ARRAY_ADDR = None /\ calls' # calls =>
          /\ thread'[Caller].pc = "aborted" /\ thread'[Caller].ret = Abort
          /\ UNCHANGED <<slots, refs, ids, QUEUE_ARRAY_ADDR>>]_vars

\* a deque_push before the anchor was set has aborted
C24_Witness ==
    /\ QUEUE_ARRAY_ADDR = None
    /\ thread[Caller].op = "deque_push" /\ thread[Caller].pc = "aborted"
    /\ slots = SlotArray_new(ARRAY_LEN)

\* C25: an api call with a process_id that is not below ARRAY_LEN aborts, and
\* the state, rc and content of every cell are as they were.
C25_OutOfRangeIdAborts ==
    [][calls' # calls /\ thread'[Caller].index >= ARRAY_LEN =>
          /\ thread'[Caller].pc = "aborted" /\ thread'[Caller].ret = Abort
          /\ UNCHANGED <<slots, refs, ids>>]_vars

\* set_pid(ARRAY_LEN, ..) has aborted while a process is registered
C25_Witness ==
    /\ thread[Caller].op = "set_pid" /\ thread[Caller].index = ARRAY_LEN
    /\ thread[Caller].pc = "aborted"
    /\ slots[0].state = SA_READY /\ slots[0].rc = 1 /\ ids[0] = 1

\* ------------------------------------------------------- deque invariants
\* no push and no pop is in progress
NoCallRunning == \A t \in DOMAIN thread : ~Running(t)

\* (tail - head) mod C
Span == (tail - head + CAPACITY) % CAPACITY

\* C26: in every state of the deque in which no push or pop is in progress,
\* the number of READY cells is (tail - head) mod C.
C26_ReadyCountIsSpan == NoCallRunning => ReadyCount(buffer) = Span

\* index i lies in the logical range [head, tail) modulo C
InRange(i) == ((i - head + CAPACITY) % CAPACITY) < Span

\* a call in progress holds cell i between its claim and its final store
Owned(i) == \E t \in DOMAIN thread : Running(t) /\ thread[t].slot = i /\ buffer[i].state \in {SLOT_WRITING, SLOT_READING}

\* C27: in every reachable state every cell outside the logical range
\* [head, tail) modulo C is EMPTY (a cell a call in progress has claimed is
\* WRITING or READING until that call's store), and a READY cell lies inside
\* the range.
C27_OutsideRangeIsEmpty == \A i \in DOMAIN buffer : /\ ~InRange(i) => buffer[i].state = SLOT_EMPTY \/ Owned(i)
                                                    /\ buffer[i].state = SLOT_READY => InRange(i)

\* thread t is between its successful claim of cell i and its own store that
\* ends it (publish or release, or the rollback after a failed index CAS)
Owns(t, i) == /\ Running(t)
              /\ thread[t].pc \in {"cas_index", "rollback", "write", "publish", "read", "release"}
              /\ thread[t].slot = i

Owners(i) == {t \in DOMAIN thread : Owns(t, i)}

Transient(s) == s \in {SLOT_WRITING, SLOT_READING}

\* C28: at most one thread at a time owns a cell in a transient state: a cell
\* is WRITING or READING exactly while one thread is between its claim and its
\* own store, no two threads are so on the same cell, only the owner writes
\* the cell's storage, and only the owner's step moves the cell out of the
\* transient state.
C28_OneOwner == /\ [](\A i \in DOMAIN buffer :
                       /\ Cardinality(Owners(i)) <= 1
                       /\ Transient(buffer[i].state) <=> Owners(i) # {}
                       /\ \A t \in Owners(i) : buffer[i].state = IF thread[t].op \in PushOps THEN SLOT_WRITING ELSE SLOT_READING)
                /\ [][\A i \in DOMAIN buffer :
                        (Transient(buffer[i].state) /\ buffer'[i].state # buffer[i].state) \/ buffer'[i].data # buffer[i].data
                            => \E t \in Owners(i) : thread'[t] # thread[t] /\ \A u \in DOMAIN thread \ {t} : thread'[u] = thread[u]]_vars

\* one thread holds a cell in READING while the other is about to try the
\* same cell
C28_Witness == \E t, u \in DOMAIN thread : /\ t # u
                                           /\ Owns(t, thread[u].slot)
                                           /\ Running(u) /\ thread[u].pc = "cas_slot"
                                           /\ buffer[thread[u].slot].state = SLOT_READING

\* the state changes of a cell: the cycle and the two rollbacks
Cycle == {<<SLOT_EMPTY, SLOT_WRITING>>, <<SLOT_WRITING, SLOT_READY>>, <<SLOT_READY, SLOT_READING>>, <<SLOT_READING, SLOT_EMPTY>>}

Rollbacks == {<<SLOT_WRITING, SLOT_EMPTY>>, <<SLOT_READING, SLOT_READY>>}

\* thread t takes the store that follows its failed index CAS
RollsBack(t) == Running(t) /\ thread[t].pc = "rollback" /\ thread'[t] # thread[t]

\* C29: every change of a cell's state is EMPTY to WRITING, WRITING to READY,
\* READY to READING, READING to EMPTY, or one of the rollbacks WRITING to
\* EMPTY and READING to READY, and a rollback is the store of a thread whose
\* index CAS failed; there is no other change.
C29_LegalTransitions == [][\A i \in DOMAIN buffer :
                             LET change == <<buffer[i].state, buffer'[i].state>> IN
                             buffer'[i].state # buffer[i].state =>
                                 \/ change \in Cycle /\ \A t \in Owners(i) : ~RollsBack(t)
                                 \/ change \in Rollbacks /\ \E t \in Owners(i) : RollsBack(t)]_vars

\* a pop whose index CAS failed for good (not spuriously) is about to put its
\* cell back to READY
C29_Witness == \E t \in DOMAIN thread : /\ Running(t) /\ thread[t].pc = "rollback"
                                        /\ thread[t].op \in PopOps
                                        /\ buffer[thread[t].slot].state = SLOT_READING
                                        /\ spurious = 0

\* C30: in every reachable state head and tail are both in 0 .. C - 1, and
\* every move of an index is one cell forward or backward modulo C, so that
\* push_front at head = 0 and pop_back at tail = 0 wrap to C - 1.
C30_IndicesInRange == /\ [](head \in 0..(CAPACITY - 1) /\ tail \in 0..(CAPACITY - 1))
                      /\ [][(head' # head => head' \in {(head + 1) % CAPACITY, (head + CAPACITY - 1) % CAPACITY})
                            /\ (tail' # tail => tail' \in {(tail + 1) % CAPACITY, (tail + CAPACITY - 1) % CAPACITY})]_vars

\* a pop_back that loaded tail = 0 has just moved tail to C - 1, after a
\* push_front at head = 0 had moved head to C - 1
C30_Witness == \E t, u \in DOMAIN thread :
                   /\ thread[t].op = "pop_back" /\ thread[t].pc = "read"
                   /\ thread[t].tail = 0 /\ tail = CAPACITY - 1
                   /\ thread[u].op = "push_front" /\ ~Running(u) /\ thread[u].ret = Ok
                   /\ head = CAPACITY - 1

\* ------------------------------------------- one push beside a busy thread
\* One thread makes a single push_front or push_back while the other makes up
\* to MaxOtherCalls pushes and pops, at either end, one after the other.
Pusher == 1

PlainOps == {"push_front", "push_back", "pop_front", "pop_back"}

CallBeside(t) ==
    /\ ~Running(t)
    /\ calls[t] < (IF t = Pusher THEN 1 ELSE MaxOtherCalls)
    /\ \E o \in (IF t = Pusher THEN {"push_front", "push_back"} ELSE PlainOps) :
       \E v \in (IF o \in PushOps THEN Values ELSE {0}) :
          /\ SetThread(t, Enter(Me(t), o, v))
          /\ sawEmpty' = [sawEmpty EXCEPT ![t] = (o \in PopOps) /\ NoReady(buffer)]
          /\ sawFull' = [sawFull EXCEPT ![t] = (o \in PushOps) /\ AtCapacity(buffer, head, tail)]
    /\ calls' = [calls EXCEPT ![t] = @ + 1]
    /\ UNCHANGED <<CAPACITY, buffer, head, tail, flag, spurious, pushed, popped, ref, expect, snap, QUEUE_ARRAY_ADDR, slots, refs, ids>>

PlainWork(t) ==
    \/ push_front(t)
    \/ push_back(t)
    \/ pop_front(t)
    \/ pop_back(t)

NextBeside == \E t \in Threads : CallBeside(t) \/ PlainWork(t)

SpecBeside == Init /\ [][NextBeside]_vars

\* --------------------------------------------------- pushes that report full
\* C31: a push returns full only if the deque held CAPACITY - 1 elements at
\* some instant between the start and the return of that call, whatever calls
\* the other threads complete meanwhile.
C31_FullOnlyIfAtCapacity ==
    \A t \in DOMAIN thread :
        (/\ Returned(t)
         /\ thread[t].op \in PushOps
         /\ thread[t].ret[1] = "Err") => sawFull[t]

\* ------------------------------------- push_front racing with pop_back
\* One thread fills a deque of CapMix cells with up to MaxFill calls made one
\* after the other; then it calls push_front(v) while the other thread calls
\* pop_back().
Popper == 2

Prepare ==
    /\ calls[Popper] = 0
    /\ ~Running(Pusher)
    /\ calls[Pusher] < MaxFill
    /\ \E o \in PlainOps :
       \E v \in (IF o \in PushOps THEN Values ELSE {0}) :
          SetThread(Pusher, Enter(Me(Pusher), o, v))
    /\ calls' = [calls EXCEPT ![Pusher] = @ + 1]
    /\ UNCHANGED <<CAPACITY, buffer, head, tail, flag, spurious, pushed, popped, sawEmpty, sawFull,
                   ref, expect, snap, QUEUE_ARRAY_ADDR, slots, refs, ids>>

Race ==
    /\ calls[Popper] = 0
    /\ ~Running(Pusher)
    /\ \E v \in Values :
          /\ thread' = [thread EXCEPT ![Pusher] = Enter(@, "push_front", v),
                                      ![Popper] = Enter(@, "pop_back", 0)]
          /\ snap' = [op |-> "push_front", item |-> v, head |-> head, tail |-> tail, buffer |-> buffer]
    /\ calls' = [calls EXCEPT ![Pusher] = @ + 1, ![Popper] = 1]
    /\ UNCHANGED <<CAPACITY, buffer, head, tail, flag, spurious, pushed, popped, sawEmpty, sawFull,
                   ref, expect, QUEUE_ARRAY_ADDR, slots, refs, ids>>

InitRace == Start(CapMix, {Pusher, Popper})

NextRace == Prepare \/ Race \/ \E t \in {Pusher, Popper} : PlainWork(t)

SpecRace == InitRace /\ [][NextRace]_vars

\* the deque as the two racing calls found it
Before == [buffer |-> snap.buffer, head |-> snap.head, tail |-> snap.tail]

\* both racing calls have returned, and they started on a deque that held at
\* least two elements and fewer than CAPACITY - 1
RaceOver ==
    /\ calls[Popper] = 1
    /\ Returned(Pusher) /\ Returned(Popper)
    /\ ReadyCount(snap.buffer) >= 2
    /\ ReadyCount(snap.buffer) < CAPACITY - 1

\* C32: on a deque holding at least two elements and fewer than C - 1, a
\* push_front(v) and a pop_back() that run concurrently both succeed, and head,
\* tail, every cell and the value popped are what the two calls give when run
\* one after the other, in either order.
C32_PushFrontPopBackCommute ==
    RaceOver =>
        LET push_first == pop_back_alone(push_front_alone(Before, snap.item).deque)
            pop_first == push_front_alone(pop_back_alone(Before).deque, snap.item)
            last == (snap.tail + CAPACITY - 1) % CAPACITY
        IN /\ thread[Pusher].ret = <<"Ok", 0>>
           /\ thread[Popper].ret = <<"Some", snap.buffer[last].data>>
           /\ thread[Popper].ret = push_first.ret
           /\ thread[Popper].ret = pop_back_alone(Before).ret
           /\ pop_first.ret = thread[Pusher].ret
           /\ [buffer |-> buffer, head |-> head, tail |-> tail] = push_first.deque
           /\ push_first.deque = pop_first.deque
           /\ head = (snap.head + CAPACITY - 1) % CAPACITY
           /\ tail = last

\* the race is over on a deque of two elements whose pop_back wrapped from
\* tail = 0, with no spurious CAS failure
C32_Witness ==
    /\ RaceOver
    /\ snap.tail = 0
    /\ ReadyCount(snap.buffer) = 2
    /\ thread[Popper].ret[1] = "Some"
    /\ spurious = 0

\* ------------------------------------------------ SlotArray cell invariants
\* thread u is inside a push that has claimed cell i, at one of the pcs
Pushing(u, i, pcs) == thread[u].op = "push" /\ thread[u].index = i /\ thread[u].pc \in pcs

\* thread u is inside the drop of the last handle to cell i, at one of the pcs
Deleting(u, i, pcs) == thread[u].op = "drop" /\ thread[u].index = i /\ thread[u].pc \in pcs

\* the threads inside a window in which cell i is READY before its first
\* handle is counted (push), or still READY after its last was released (drop)
Uncounted(i) == {u \in DOMAIN thread : Pushing(u, i, {"rc"}) \/ Deleting(u, i, {"pending"})}

\* C33 as stated: in every reachable state, the states inside push and inside
\* the drop of a SlotRef included, a READY cell has rc >= 1.
C33_ReadyHasRc == \A i \in DOMAIN slots : slots[i].state = SA_READY => slots[i].rc >= 1

\* C33, amended: a READY cell has rc >= 1, except while one thread is inside
\* push between its store of READY and its rc.fetch_add, or inside the last
\* drop between its rc.fetch_sub and its swap to PENDING; then rc is 0, that
\* thread is the only one there and no handle to the cell exists.
C33_ReadyHasRcOutsideWindows ==
    \A i \in DOMAIN slots :
        slots[i].state = SA_READY =>
            \/ slots[i].rc >= 1 /\ Uncounted(i) = {}
            \/ slots[i].rc = 0 /\ Cardinality(Uncounted(i)) = 1 /\ refs[i] = 0

\* one cell is READY and counted while another thread is inside the last drop
\* of a second cell, which is still READY with rc = 0
C33_Witness ==
    \E i, j \in DOMAIN slots :
        /\ i # j
        /\ slots[i].state = SA_READY /\ slots[i].rc >= 1
        /\ slots[j].state = SA_READY /\ slots[j].rc = 0
        /\ \E u \in DOMAIN thread : Deleting(u, j, {"pending"})

\* the threads between their claim of cell i and their count of its first
\* handle (push), or between their release of its last handle and their store
\* of EMPTY (drop)
Unsettled(i) == {u \in DOMAIN thread : Pushing(u, i, {"write", "ready", "rc"}) \/ Deleting(u, i, {"pending", "delete"})}

\* C34 as stated: in every reachable state a cell is EMPTY if and only if its
\* rc is 0.
C34_EmptyIffRcZero == \A i \in DOMAIN slots : slots[i].state = SA_EMPTY <=> slots[i].rc = 0

\* C34, amended: in every reachable state an EMPTY cell has rc = 0, and a cell
\* with rc = 0 is EMPTY unless exactly one thread is inside the push that
\* claimed it and has not counted its handle yet, or inside the last drop that
\* has not stored EMPTY yet; no handle to such a cell exists.
C34_EmptyIffRcZeroWhenSettled ==
    \A i \in DOMAIN slots :
        /\ slots[i].state = SA_EMPTY => slots[i].rc = 0
        /\ slots[i].rc = 0 =>
              \/ slots[i].state = SA_EMPTY /\ Unsettled(i) = {}
              \/ slots[i].state # SA_EMPTY /\ Cardinality(Unsettled(i)) = 1 /\ refs[i] = 0

\* a cell that was pushed and released is EMPTY with rc = 0 again, while a
\* push into another cell is PENDING with rc = 0
C34_Witness ==
    \E i, j \in DOMAIN slots, u, w \in DOMAIN thread :
        /\ i # j /\ u # w
        /\ thread[w].op = "drop" /\ thread[w].index = i /\ thread[w].ret = Unit /\ thread[w].pc = "idle"
        /\ slots[i].state = SA_EMPTY /\ slots[i].rc = 0
        /\ Pushing(u, j, {"write"})
        /\ slots[j].state = SA_PENDING /\ slots[j].rc = 0

\* ------------------------------------------------- SlotArray under overlap
\* C35: under any interleaving of push, clone and drop by callers that respect
\* the handle contract, no assertion of the SlotArray fails, also when a push
\* runs while a drop is in progress.
C35_NoAssertionFails ==
    \A t \in DOMAIN thread : thread[t].op \in {"push", "clone", "drop"} => thread[t].pc # "aborted"

\* C36: access to a cell's storage is exclusive: no push holds a cell, to
\* write a new value into it, while the drop of that cell's old value is
\* still to come, and get never returns a value that is dead.
C36_ExclusiveStorage ==
    /\ \A i \in DOMAIN slots : \A u, w \in DOMAIN thread :
           ~(Pushing(u, i, {"write", "ready", "rc"}) /\ Deleting(w, i, {"drop_value"}))
    /\ \A t \in DOMAIN thread :
           thread[t].op = "get" /\ thread[t].pc = "idle" /\ thread[t].ret[1] = "Some" => thread[t].ret[2] # DEAD

\* thread t takes the last step of a push that succeeds
PushReturns(t) == thread[t].op = "push" /\ thread[t].pc = "rc" /\ thread'[t].pc = "idle"

\* C37: pushes that run concurrently never hold the same cell, and when a push
\* returns, its handle is the only one to its cell and dereferences to the
\* value that this push stored.
C37_PushesGetOwnCells ==
    /\ [](\A i \in DOMAIN slots : Cardinality({u \in DOMAIN thread : Pushing(u, i, {"write", "ready", "rc"})}) <= 1)
    /\ [][\A t \in DOMAIN thread :
            PushReturns(t) =>
                LET i == thread[t].index IN
                /\ thread'[t].ret = <<"SlotRef", i>>
                /\ refs'[i] = 1
                /\ slots'[i].state = SA_READY
                /\ slots'[i].value = thread[t].value]_vars

\* ------------------------------------------------- reuse of a popped route
\* the caller adds a route to the process from which its previous call popped one
AddsAfterPop ==
    /\ Called("map_add_entry")
    /\ thread[Caller].op = "map_pop_ntf_id" /\ thread[Caller].ret[1] = "Some"
    /\ thread'[Caller].index = thread[Caller].index

\* C38: after map_pop_ntf_id has removed an entry, a map_add_entry on the same
\* process succeeds without an assertion failure, stores its entry in the
\* lowest-index free cell of the table, and the entry is then one that
\* map_get_ntf_id finds.
C38_PoppedCellIsReusable ==
    [][AddsAfterPop =>
          LET id == thread'[Caller].index
              entry == thread'[Caller].value
              free == Lowest(EmptyCells(Table(slots, id)))
          IN /\ thread'[Caller].ret = <<"Ok", 0>>
             /\ Table(slots', id)[free].state = SA_READY
             /\ Table(slots', id)[free].value = entry
             /\ free \in Routes(slots', id, entry[1], TRUE)]_vars

\* ----------------------------------------------- calls addressed to one process
\* the api functions that take a process_id and write through it
FrameOps == {"deque_push", "deque_pop", "set_pid", "map_add_entry", "map_pop_ntf_id"}

\* C39: a deque_push, deque_pop, set_pid, map_add_entry or map_pop_ntf_id with
\* process_id p leaves the cell of every other process q as it was: its state,
\* its rc, its mailbox, its pid and its routing table.
C39_OtherProcessesUnchanged ==
    [][(calls' # calls /\ thread'[Caller].op \in FrameOps) =>
          \A q \in DOMAIN slots :
              (q # thread'[Caller].index) => (slots'[q] = slots[q])]_vars

\* a set_pid on process 0 has returned and stored its pid while process 1 is
\* registered, has no pid and holds a message in its mailbox
C39_Witness ==
    /\ thread[Caller].op = "set_pid" /\ thread[Caller].index = 0 /\ thread[Caller].ret = Unit
    /\ slots[0].state = SA_READY
    /\ slots[0].value.pid = thread[Caller].value
    /\ slots[1].state = SA_READY
    /\ slots[1].value.pid = 0
    /\ slots[1].value.deque.head # slots[1].value.deque.tail

\* ------------------------------------------------------- the width of the rc
\* C40: the rc of a cell never wraps: whenever no operation is in progress it
\* is the number of live handles to the cell, for any number of clones, and a
\* cell with a live handle is READY and holds its value, so it is reclaimed
\* only by the drop of the last handle.
C40_RcNeverWraps ==
    \A i \in DOMAIN slots :
        /\ Quiescent => slots[i].rc = refs[i]
        /\ refs[i] >= 1 => slots[i].state = SA_READY /\ slots[i].value # DEAD
====
